---------------------------- MODULE Spec2Model ----------------------------
(***************************************************************************)
(* Model of the booking assistant: the Booking Store (bookings_store.py),  *)
(* the Availability Engine (slot_engine.py) and the Extraction Engine      *)
(* (booking_logic.py, time_utils.py).                                      *)
(*                                                                         *)
(* Conventions                                                             *)
(*   - Python's None is the string NoneVal; a value is "falsy" when it is  *)
(*     None or the empty string (Python's `if x:` / `not x` on Optional    *)
(*     strings).                                                           *)
(*   - A booking id (uuid4 in the code) is a fresh natural number.         *)
(*   - A confidence is an integer number of hundredths (0.95 is 95).       *)
(***************************************************************************)
EXTENDS Integers, Sequences, FiniteSets, TLC

VARIABLES
    store,      \* the bookings table, in insertion (created_at) order
    nextId,     \* number of booking ids generated so far
    last,       \* the last completed slot-engine call: arguments, result, store before
    procs,      \* the callers in flight: two processes inside book_slot (check step /
                \* insert step), two threads inside calculate_price (cache read / write),
                \* two other sessions of the application (seeding, or waiting for a rate)
    msgs,       \* the conversation: the content of each message, oldest first
    state,      \* what extract_booking_state returned for msgs
    expl,       \* the breakdown compute_explainability_score returned for state
    question,   \* the clarifying question suggested for state (None when none)
    fxCache,    \* pricing._FX_CACHE: the cached INR rate in hundredths (NoRate when empty)
    call,       \* the last call of a parser or of calculate_price; the turn of the
                \* session under watch: what it did and where its run stands
    sideRuns    \* runs of app.py started by a button or by another session's turn

conv == <<msgs, state, expl, question>>

aux == <<fxCache, call, sideRuns>>

vars == <<store, nextId, last, procs, msgs, state, expl, question, fxCache, call, sideRuns>>

-----------------------------------------------------------------------------
(* Values *)

NoneVal == "<None>"

Falsy(x) == x = NoneVal \/ x = ""

\* the four slot fields of a booking state, in the order the code lists them
SlotOrder == <<"service", "date", "time", "location">>
SlotFields == {SlotOrder[i] : i \in DOMAIN SlotOrder}

Truthy(x) == ~Falsy(x)

\* `a or b` on Optional strings
OrElse(a, b) == IF Truthy(a) THEN a ELSE b

\* Position of x in sequence s (0 when absent)
IndexOf(s, x) == IF \E i \in DOMAIN s : s[i] = x
                 THEN CHOOSE i \in DOMAIN s : s[i] = x /\ \A j \in 1..(i - 1) : s[j] # x
                 ELSE 0

InSeq(s, x) == \E i \in DOMAIN s : s[i] = x

-----------------------------------------------------------------------------
(* Text: a text is a TLA+ string; Len, SubSeq and \o act on its characters *)

\* the characters a..b of t, empty when the range leaves t
Sub(t, a, b) == IF a >= 1 /\ a <= b /\ b <= Len(t) THEN SubSeq(t, a, b) ELSE ""

Ch(t, i) == Sub(t, i, i)

\* `kw in text`
Contains(text, kw) ==
    \E i \in 1..(Len(text) - Len(kw) + 1) : SubSeq(text, i, i + Len(kw) - 1) = kw

DigitVal == ("0" :> 0) @@ ("1" :> 1) @@ ("2" :> 2) @@ ("3" :> 3) @@ ("4" :> 4) @@
            ("5" :> 5) @@ ("6" :> 6) @@ ("7" :> 7) @@ ("8" :> 8) @@ ("9" :> 9)

UpperToLower ==
    ("A" :> "a") @@ ("B" :> "b") @@ ("C" :> "c") @@ ("D" :> "d") @@ ("E" :> "e") @@
    ("F" :> "f") @@ ("G" :> "g") @@ ("H" :> "h") @@ ("I" :> "i") @@ ("J" :> "j") @@
    ("K" :> "k") @@ ("L" :> "l") @@ ("M" :> "m") @@ ("N" :> "n") @@ ("O" :> "o") @@
    ("P" :> "p") @@ ("Q" :> "q") @@ ("R" :> "r") @@ ("S" :> "s") @@ ("T" :> "t") @@
    ("U" :> "u") @@ ("V" :> "v") @@ ("W" :> "w") @@ ("X" :> "x") @@ ("Y" :> "y") @@
    ("Z" :> "z")

LowerLetters == {UpperToLower[c] : c \in DOMAIN UpperToLower}

IsDigit(c) == c \in DOMAIN DigitVal

\* [a-zA-Z]
IsLetter(c) == c \in DOMAIN UpperToLower \/ c \in LowerLetters

\* A text holds the characters TLA+ strings can hold, code points 0 to 255.  Python's
\* re and str methods work on Unicode: on these characters \d is 0-9, \w has the
\* letters and numerals beyond ASCII too, and \s is what str.isspace() accepts.

\* the cased letters beyond ASCII: upper case to lower case
AccentedToLower ==
    ("À" :> "à") @@ ("Á" :> "á") @@ ("Â" :> "â") @@ ("Ã" :> "ã") @@ ("Ä" :> "ä") @@
    ("Å" :> "å") @@ ("Æ" :> "æ") @@ ("Ç" :> "ç") @@ ("È" :> "è") @@ ("É" :> "é") @@
    ("Ê" :> "ê") @@ ("Ë" :> "ë") @@ ("Ì" :> "ì") @@ ("Í" :> "í") @@ ("Î" :> "î") @@
    ("Ï" :> "ï") @@ ("Ð" :> "ð") @@ ("Ñ" :> "ñ") @@ ("Ò" :> "ò") @@ ("Ó" :> "ó") @@
    ("Ô" :> "ô") @@ ("Õ" :> "õ") @@ ("Ö" :> "ö") @@ ("Ø" :> "ø") @@ ("Ù" :> "ù") @@
    ("Ú" :> "ú") @@ ("Û" :> "û") @@ ("Ü" :> "ü") @@ ("Ý" :> "ý") @@ ("Þ" :> "þ")

\* the word characters beyond ASCII (str.isalnum() is true of them)
AccentedWord ==
    {"ª", "²", "³", "µ", "¹", "º", "¼", "½", "¾", "À", "Á", "Â",
     "Ã", "Ä", "Å", "Æ", "Ç", "È", "É", "Ê", "Ë", "Ì", "Í", "Î",
     "Ï", "Ð", "Ñ", "Ò", "Ó", "Ô", "Õ", "Ö", "Ø", "Ù", "Ú", "Û",
     "Ü", "Ý", "Þ", "ß", "à", "á", "â", "ã", "ä", "å", "æ", "ç",
     "è", "é", "ê", "ë", "ì", "í", "î", "ï", "ð", "ñ", "ò", "ó",
     "ô", "õ", "ö", "ø", "ù", "ú", "û", "ü", "ý", "þ", "ÿ"}

\* \w
IsWordCh(c) == IsDigit(c) \/ IsLetter(c) \/ c = "_" \/ c \in AccentedWord

\* \s: tab, line feed, vertical tab, form feed, carriage return, the separators
\* 1C to 1F, space, next line (85) and the no-break space (A0)
IsSpace(c) == c \in {" ", "\t", "\n", "\r", "\f", "", "", "", "", "",
                     "", " "}

\* str.lower() of one character
LowerCh(c) == IF c \in DOMAIN UpperToLower THEN UpperToLower[c]
              ELSE IF c \in DOMAIN AccentedToLower THEN AccentedToLower[c]
              ELSE c

\* str.lower()
RECURSIVE Lower(_)
Lower(t) ==
    IF t = "" THEN ""
    ELSE LowerCh(Ch(t, 1)) \o Lower(Sub(t, 2, Len(t)))

\* str.strip()
RECURSIVE Strip(_)
Strip(t) ==
    IF t = "" THEN ""
    ELSE IF IsSpace(Ch(t, 1)) THEN Strip(Sub(t, 2, Len(t)))
    ELSE IF IsSpace(Ch(t, Len(t))) THEN Strip(Sub(t, 1, Len(t) - 1))
    ELSE t

\* str.lstrip("0")
RECURSIVE LStripZero(_)
LStripZero(t) == IF Ch(t, 1) = "0" THEN LStripZero(Sub(t, 2, Len(t))) ELSE t

\* int() of a string of digits
RECURSIVE ToInt(_)
ToInt(t) == IF t = "" THEN 0
            ELSE ToInt(Sub(t, 1, Len(t) - 1)) * 10 + DigitVal[Ch(t, Len(t))]

\* %02d and %04d
Pad2(n) == IF n < 10 THEN "0" \o ToString(n) ELSE ToString(n)
Pad4(n) == IF n < 10 THEN "000" \o ToString(n)
           ELSE IF n < 100 THEN "00" \o ToString(n)
           ELSE IF n < 1000 THEN "0" \o ToString(n)
           ELSE ToString(n)

\* the n characters from i on are digits
AllDigits(t, i, n) ==
    i >= 1 /\ i + n - 1 <= Len(t) /\ \A k \in i..(i + n - 1) : IsDigit(Ch(t, k))

\* \b just before character i (1..Len+1)
Boundary(t, i) == IsWordCh(Ch(t, i - 1)) # IsWordCh(Ch(t, i))

\* the first position from k on that holds no white space (\s* is greedy)
RECURSIVE SkipSpaces(_, _)
SkipSpaces(t, k) == IF k <= Len(t) /\ IsSpace(Ch(t, k)) THEN SkipSpaces(t, k + 1) ELSE k

\* the number of characters of [a-zA-Z ] from g on, at most max
RECURSIVE ClassRun(_, _, _)
ClassRun(t, g, max) ==
    IF max > 0 /\ g <= Len(t) /\ (IsLetter(Ch(t, g)) \/ Ch(t, g) = " ")
    THEN 1 + ClassRun(t, g + 1, max - 1)
    ELSE 0

MinOf(S) == CHOOSE x \in S : \A y \in S : x <= y
MaxOf(S) == CHOOSE x \in S : \A y \in S : x >= y

-----------------------------------------------------------------------------
(* time_utils.py *)

NoMatch == [ok |-> FALSE, hour |-> 0, minute |-> 0, period |-> ""]

\* \b(\d{1,2})(?::(\d{2}))?\s*(am|pm)\b tried at position i with nd hour digits
Match12With(t, i, nd) ==
    LET j == i + nd
        hasMin == Ch(t, j) = ":" /\ AllDigits(t, j + 1, 2)
        k == SkipSpaces(t, IF hasMin THEN j + 3 ELSE j)
    IN  IF /\ Boundary(t, i)
           /\ AllDigits(t, i, nd)
           /\ Sub(t, k, k + 1) \in {"am", "pm"}
           /\ Boundary(t, k + 2)
        THEN [ok |-> TRUE, hour |-> ToInt(Sub(t, i, j - 1)),
              minute |-> IF hasMin THEN ToInt(Sub(t, j + 1, j + 2)) ELSE 0,
              period |-> Sub(t, k, k + 1)]
        ELSE NoMatch

\* the greedy \d{1,2}: two digits first, then one
Match12At(t, i) ==
    IF Match12With(t, i, 2).ok THEN Match12With(t, i, 2) ELSE Match12With(t, i, 1)

\* \b([01]?\d|2[0-3]):([0-5]\d)\b tried at position i with nd hour digits
Match24With(t, i, nd) ==
    LET j == i + nd
        hourOk == IF nd = 2
                  THEN Ch(t, i) \in {"0", "1"}
                       \/ (Ch(t, i) = "2" /\ Ch(t, i + 1) \in {"0", "1", "2", "3"})
                  ELSE TRUE
    IN  IF /\ Boundary(t, i)
           /\ AllDigits(t, i, nd)
           /\ hourOk
           /\ Ch(t, j) = ":"
           /\ AllDigits(t, j + 1, 2)
           /\ Ch(t, j + 1) \in {"0", "1", "2", "3", "4", "5"}
           /\ Boundary(t, j + 3)
        THEN [ok |-> TRUE, hour |-> ToInt(Sub(t, i, j - 1)),
              minute |-> ToInt(Sub(t, j + 1, j + 2)), period |-> ""]
        ELSE NoMatch

Match24At(t, i) ==
    IF Match24With(t, i, 2).ok THEN Match24With(t, i, 2) ELSE Match24With(t, i, 1)

\* re.search: the match at the leftmost position that has one
Search12(t) ==
    LET hits == {i \in 1..Len(t) : Match12At(t, i).ok} IN
    IF hits = {} THEN NoMatch ELSE Match12At(t, MinOf(hits))

Search24(t) ==
    LET hits == {i \in 1..Len(t) : Match24At(t, i).ok} IN
    IF hits = {} THEN NoMatch ELSE Match24At(t, MinOf(hits))

\* mutant: the leading zero of %I is kept
FormatTime_Padded(hour, minute) ==
    Pad2(IF hour % 12 = 0 THEN 12 ELSE hour % 12) \o ":" \o Pad2(minute)
    \o " " \o (IF hour < 12 THEN "AM" ELSE "PM")

\* time(hour, minute).strftime("%I:%M %p").lstrip("0")
FormatTime(hour, minute) ==
    LStripZero(Pad2(IF hour % 12 = 0 THEN 12 ELSE hour % 12) \o ":" \o Pad2(minute)
               \o " " \o (IF hour < 12 THEN "AM" ELSE "PM"))

TimeNone == [kind |-> "none", value |-> NoneVal]
TimeRaise == [kind |-> "raise", value |-> NoneVal]
TimeValue(v) == [kind |-> "value", value |-> v]

\* normalize_time; kind "raise" is the ValueError of datetime.time(hour, minute)
NormalizeTime(text) ==
    IF text = "" THEN TimeNone
    ELSE LET s == Lower(text)
             m == Search12(s)
             m2 == Search24(s)
             hour == IF m.period = "pm" /\ m.hour # 12 THEN m.hour + 12
                     ELSE IF m.period = "am" /\ m.hour = 12 THEN 0
                     ELSE m.hour
         IN  IF m.ok
             THEN IF hour > 23 \/ m.minute > 59 THEN TimeRaise
                  ELSE TimeValue(FormatTime(hour, m.minute))
             ELSE IF m2.ok THEN TimeValue(FormatTime(m2.hour, m2.minute))
             ELSE TimeNone

-----------------------------------------------------------------------------
(* booking_logic.py: _parse_date *)

IsLeap(y) == (y % 4 = 0 /\ y % 100 # 0) \/ y % 400 = 0

DaysIn(y, m) == IF m = 2 THEN (IF IsLeap(y) THEN 29 ELSE 28)
                ELSE IF m \in {4, 6, 9, 11} THEN 30
                ELSE 31

\* date(y, m, d) is a date
ValidDate(y, m, d) == y \in 1..9999 /\ m \in 1..12 /\ d >= 1 /\ d <= DaysIn(y, m)

\* date.isoformat()
Iso(y, m, d) == Pad4(y) \o "-" \o Pad2(m) \o "-" \o Pad2(d)

\* (today + timedelta(days=1)).isoformat(), today as <<y, m, d>>
NextDayIso(today) ==
    LET y == today[1]  m == today[2]  d == today[3] IN
    IF d < DaysIn(y, m) THEN Iso(y, m, d + 1)
    ELSE IF m < 12 THEN Iso(y, m + 1, 1)
    ELSE Iso(y + 1, 1, 1)

\* today + timedelta(days=n), as <<y, m, d>>
RECURSIVE PlusDays(_, _)
PlusDays(today, n) ==
    IF n = 0 THEN today
    ELSE LET y == today[1]  m == today[2]  d == today[3] IN
         PlusDays(IF d < DaysIn(y, m) THEN <<y, m, d + 1>>
                  ELSE IF m < 12 THEN <<y, m + 1, 1>>
                  ELSE <<y + 1, 1, 1>>, n - 1)

NoDate == [ok |-> FALSE, a |-> "", b |-> "", c |-> ""]

\* (\d{1,2}/\d{1,2}/\d{2,4}) tried at position i with n1 and n2 digits
MatchDMYWith(t, i, n1, n2) ==
    LET j == i + n1 + 1
        k == j + n2 + 1
        n3 == MaxOf({0} \cup {n \in 2..4 : AllDigits(t, k, n)})
    IN  IF /\ AllDigits(t, i, n1) /\ Ch(t, i + n1) = "/"
           /\ AllDigits(t, j, n2) /\ Ch(t, j + n2) = "/"
           /\ n3 >= 2
        THEN [ok |-> TRUE, a |-> Sub(t, i, i + n1 - 1), b |-> Sub(t, j, j + n2 - 1),
              c |-> Sub(t, k, k + n3 - 1)]
        ELSE NoDate

MatchDMYAt(t, i) ==
    IF MatchDMYWith(t, i, 2, 2).ok THEN MatchDMYWith(t, i, 2, 2)
    ELSE IF MatchDMYWith(t, i, 2, 1).ok THEN MatchDMYWith(t, i, 2, 1)
    ELSE IF MatchDMYWith(t, i, 1, 2).ok THEN MatchDMYWith(t, i, 1, 2)
    ELSE MatchDMYWith(t, i, 1, 1)

\* (\d{4}-\d{1,2}-\d{1,2}) tried at position i with n2 month digits
MatchYMDWith(t, i, n2) ==
    LET j == i + 5
        k == j + n2 + 1
        n3 == IF AllDigits(t, k, 2) THEN 2 ELSE 1
    IN  IF /\ AllDigits(t, i, 4) /\ Ch(t, i + 4) = "-"
           /\ AllDigits(t, j, n2) /\ Ch(t, j + n2) = "-"
           /\ AllDigits(t, k, n3)
        THEN [ok |-> TRUE, a |-> Sub(t, i, i + 3), b |-> Sub(t, j, j + n2 - 1),
              c |-> Sub(t, k, k + n3 - 1)]
        ELSE NoDate

MatchYMDAt(t, i) ==
    IF MatchYMDWith(t, i, 2).ok THEN MatchYMDWith(t, i, 2) ELSE MatchYMDWith(t, i, 1)

SearchDMY(t) ==
    LET hits == {i \in 1..Len(t) : MatchDMYAt(t, i).ok} IN
    IF hits = {} THEN NoDate ELSE MatchDMYAt(t, MinOf(hits))

SearchYMD(t) ==
    LET hits == {i \in 1..Len(t) : MatchYMDAt(t, i).ok} IN
    IF hits = {} THEN NoDate ELSE MatchYMDAt(t, MinOf(hits))

\* strptime's %d and %m accept one or two digits, but neither "0" nor "00"
DayMonthField(f) == ToInt(f) >= 1

\* datetime.strptime(group, fmt).date().isoformat(), NoneVal when it raises
\* %d/%m/%Y
ParseDMY4(g) ==
    IF Len(g.c) = 4 /\ DayMonthField(g.a) /\ DayMonthField(g.b)
       /\ ValidDate(ToInt(g.c), ToInt(g.b), ToInt(g.a))
    THEN Iso(ToInt(g.c), ToInt(g.b), ToInt(g.a))
    ELSE NoneVal

\* %d/%m/%y: 00..68 is 2000..2068, 69..99 is 1969..1999
ParseDMY2(g) ==
    LET y == IF ToInt(g.c) <= 68 THEN 2000 + ToInt(g.c) ELSE 1900 + ToInt(g.c) IN
    IF Len(g.c) = 2 /\ DayMonthField(g.a) /\ DayMonthField(g.b)
       /\ ValidDate(y, ToInt(g.b), ToInt(g.a))
    THEN Iso(y, ToInt(g.b), ToInt(g.a))
    ELSE NoneVal

\* %Y-%m-%d
ParseYMD(g) ==
    IF DayMonthField(g.b) /\ DayMonthField(g.c)
       /\ ValidDate(ToInt(g.a), ToInt(g.b), ToInt(g.c))
    THEN Iso(ToInt(g.a), ToInt(g.b), ToInt(g.c))
    ELSE NoneVal

\* _parse_date, with datetime.now().date() as today = <<y, m, d>>
ParseDate(text, today) ==
    LET t == Lower(text)
        m == SearchDMY(t)
        m2 == SearchYMD(t)
    IN  IF Contains(t, "today") THEN Iso(today[1], today[2], today[3])
        ELSE IF Contains(t, "tomorrow") THEN NextDayIso(today)
        ELSE IF m.ok /\ ParseDMY4(m) # NoneVal THEN ParseDMY4(m)
        ELSE IF m.ok /\ ParseDMY2(m) # NoneVal THEN ParseDMY2(m)
        ELSE IF m2.ok THEN ParseYMD(m2)
        ELSE NoneVal

-----------------------------------------------------------------------------
(* slot_engine.py: the catalog *)

\* dict order of AVAILABLE_SLOTS
ServiceOrder == <<"spa", "salon", "facial", "dental", "doctor", "head spa", "hotel", "travel">>

AVAILABLE_SLOTS ==
    ("spa" :> <<"9:00 AM", "10:00 AM", "11:00 AM", "4:00 PM">>) @@
    ("salon" :> <<"10:00 AM", "12:00 PM", "3:00 PM">>) @@
    ("facial" :> <<"10:00 AM", "11:00 AM", "3:00 PM">>) @@
    ("dental" :> <<"9:00 AM", "11:00 AM", "2:00 PM">>) @@
    ("doctor" :> <<"9:00 AM", "1:00 PM", "6:00 PM">>) @@
    ("head spa" :> <<"10:00 AM", "2:00 PM">>) @@
    ("hotel" :> <<"Anytime">>) @@
    ("travel" :> <<"Morning", "Evening">>)

Configured(service) == service \in DOMAIN AVAILABLE_SLOTS

\* a configured service whose catalog has no 'Anytime' entry
Tracked(service) == Configured(service) /\ ~InSeq(AVAILABLE_SLOTS[service], "Anytime")

-----------------------------------------------------------------------------
(* bookings_store.py *)

EmptyMeta == "{}"

\* find_bookings: a falsy filter is not applied
FindBookings(st, service, date, time) ==
    SelectSeq(st, LAMBDA b : /\ (Truthy(service) => b.service = service)
                             /\ (Truthy(date) => b.date = date)
                             /\ (Truthy(time) => b.time = time))

\* the record add_booking inserts and returns
NewBooking(id, service, date, time, location, meta) ==
    [id |-> id, service |-> service, date |-> date, time |-> time,
     location |-> location, created_at |-> id, meta |-> meta]

AddBooking(st, b) == Append(st, b)

\* mutant: the DELETE matches no row although the id is reported as removed
RemoveBooking_NoDelete(st, booking_id) ==
    [store |-> st, changed |-> \E i \in DOMAIN st : st[i].id = booking_id]

\* remove_booking: DELETE ... WHERE id = ?; true iff a row was deleted
RemoveBooking(st, booking_id) ==
    [store |-> SelectSeq(st, LAMBDA b : b.id # booking_id),
     changed |-> \E i \in DOMAIN st : st[i].id = booking_id]

\* mutant: the UPDATE has no WHERE clause
UpdateBooking_Everywhere(st, booking_id, date, time) ==
    [i \in DOMAIN st |-> [st[i] EXCEPT !.date = date, !.time = time]]

\* update_booking with {"date", "time"}: UPDATE ... WHERE id = ?
UpdateBooking(st, booking_id, date, time) ==
    [i \in DOMAIN st |-> IF st[i].id = booking_id
                         THEN [st[i] EXCEPT !.date = date, !.time = time]
                         ELSE st[i]]

ResetBookings(st) == <<>>

\* seed_demo_bookings: the three demos, as (service, days from today, time,
\* location, the meta column json.dumps writes)
Demos ==
    <<<<"facial + manicure", 1, "10:00 AM", "vijayawada",
        "{\"demo\": true, \"salon_contact\": \"+91-90000-00001\", \"items\": [{\"name\": \"Cleansing Facial\", \"price\": 1200.0}, {\"name\": \"Manicure\", \"price\": 800.0}], \"total\": 2000.0, \"currency\": \"INR\"}">>,
      <<"spa", 2, "11:00 AM", "mumbai",
        "{\"demo\": true, \"salon_contact\": \"+91-90000-00002\", \"items\": [{\"name\": \"Full Body Spa\", \"price\": 2500.0}], \"total\": 2500.0, \"currency\": \"INR\"}">>,
      <<"doctor", 3, "01:00 PM", "delhi",
        "{\"demo\": true, \"salon_contact\": \"+91-90000-00003\", \"items\": [{\"name\": \"Consultation\", \"price\": 500.0}], \"total\": 500.0, \"currency\": \"INR\"}">>>>

\* the booking the k-th add_booking of seed_demo_bookings inserts, given the id the
\* table hands out
DemoBooking(k, id, today) ==
    LET d == Demos[k]
        day == PlusDays(today, d[2])
    IN  NewBooking(id, d[1], Iso(day[1], day[2], day[3]), d[3], d[4], d[5])

-----------------------------------------------------------------------------
(* slot_engine.py: the operations, as functions of the store *)

\* mutant: the date filter is dropped from the conflict query
CheckAvailability_AnyDate(st, service, date, time) ==
    IF ~Configured(service) THEN [available |-> TRUE, slots |-> <<"Anytime">>]
    ELSE LET slots == AVAILABLE_SLOTS[service] IN
         IF InSeq(slots, "Anytime") THEN [available |-> TRUE, slots |-> slots]
         ELSE IF Falsy(time) THEN [available |-> TRUE, slots |-> slots]
         ELSE IF FindBookings(st, service, NoneVal, time) # <<>>
              THEN [available |-> FALSE,
                    slots |-> SelectSeq(slots, LAMBDA s : s # time)]
              ELSE [available |-> TRUE, slots |-> slots]

\* mutant: the 'Anytime' test is missing
CheckAvailability_NoAnytime(st, service, date, time) ==
    IF ~Configured(service) THEN [available |-> TRUE, slots |-> <<"Anytime">>]
    ELSE LET slots == AVAILABLE_SLOTS[service] IN
         IF Falsy(time) THEN [available |-> TRUE, slots |-> slots]
         ELSE IF FindBookings(st, service, date, time) # <<>>
              THEN [available |-> FALSE,
                    slots |-> SelectSeq(slots, LAMBDA s : s # time)]
              ELSE [available |-> TRUE, slots |-> slots]

CheckAvailability(st, service, date, time) ==
    IF ~Configured(service) THEN [available |-> TRUE, slots |-> <<"Anytime">>]
    ELSE LET slots == AVAILABLE_SLOTS[service] IN
         IF InSeq(slots, "Anytime") THEN [available |-> TRUE, slots |-> slots]
         ELSE IF Falsy(time) THEN [available |-> TRUE, slots |-> slots]
         ELSE IF FindBookings(st, service, date, time) # <<>>
              THEN [available |-> FALSE,
                    slots |-> SelectSeq(slots, LAMBDA s : s # time)]
              ELSE [available |-> TRUE, slots |-> slots]

NoBooking == NewBooking(0, NoneVal, NoneVal, NoneVal, NoneVal, EmptyMeta)

ErrConflict == "Requested time is not available"
ErrNoAlternative == "No alternative slots available"
ErrModifyConflict == "Requested new time is not available"
NoErr == ""

\* mutant: the insert looks at the store again and drops a conflicting record
InsertStep_Guarded(st, id, service, date, time, location) ==
    IF CheckAvailability(st, service, date, time).available
    THEN AddBooking(st, NewBooking(id, service, date, time, location, EmptyMeta))
    ELSE st

\* the second half of book_slot: add_booking, with no second look at the store
InsertStep(st, id, service, date, time, location) ==
    AddBooking(st, NewBooking(id, service, date, time, location, EmptyMeta))

\* mutant: book_slot without the availability check
BookSlot_NoRecheck(st, id, service, date, time, location) ==
    [ok |-> TRUE, err |-> NoErr,
     store |-> InsertStep(st, id, service, date, time, location),
     booking |-> NewBooking(id, service, date, time, location, EmptyMeta)]

\* book_slot: id is the id generate_booking_id would return
BookSlot(st, id, service, date, time, location) ==
    IF ~CheckAvailability(st, service, date, time).available
    THEN [ok |-> FALSE, err |-> ErrConflict, store |-> st, booking |-> NoBooking]
    ELSE [ok |-> TRUE, err |-> NoErr,
          store |-> InsertStep(st, id, service, date, time, location),
          booking |-> NewBooking(id, service, date, time, location, EmptyMeta)]

\* mutant: the loop does not skip after_time
FreeEntries_NoSkip(st, service, date, after_time) ==
    SelectSeq(AVAILABLE_SLOTS[service],
              LAMBDA s : FindBookings(st, service, date, s) = <<>>)

\* the catalog entries find_next_available's loop accepts, in catalog order
FreeEntries(st, service, date, after_time) ==
    SelectSeq(AVAILABLE_SLOTS[service],
              LAMBDA s : /\ ~(Truthy(after_time) /\ s = after_time)
                         /\ FindBookings(st, service, date, s) = <<>>)

FindNextAvailable(st, service, date, after_time) ==
    IF ~Configured(service) THEN [found |-> FALSE, time |-> NoneVal, slots |-> <<>>]
    ELSE LET free == FreeEntries(st, service, date, after_time) IN
         IF free = <<>> THEN [found |-> FALSE, time |-> NoneVal, slots |-> <<>>]
         ELSE [found |-> TRUE, time |-> free[1], slots |-> AVAILABLE_SLOTS[service]]

\* other services whose catalog holds the exact requested time, in dict order
OtherOptions(service, time) ==
    SelectSeq(ServiceOrder, LAMBDA s : s # service /\ InSeq(AVAILABLE_SLOTS[s], time))

\* mutant: the suggestion is the first alternative, booked or not
AttemptResolve_FirstAlternative(st, service, date, time, allow_nearby) ==
    LET ca == CheckAvailability(st, service, date, time) IN
    IF ca.available
    THEN [available |-> TRUE, suggestion |-> time, alternatives |-> ca.slots,
          other_options |-> <<>>]
    ELSE [available |-> FALSE,
          suggestion |-> IF ca.slots # <<>> THEN ca.slots[1] ELSE NoneVal,
          alternatives |-> ca.slots,
          other_options |-> IF allow_nearby THEN OtherOptions(service, time) ELSE <<>>]

AttemptResolve(st, service, date, time, allow_nearby) ==
    LET ca == CheckAvailability(st, service, date, time) IN
    IF ca.available
    THEN [available |-> TRUE, suggestion |-> time, alternatives |-> ca.slots,
          other_options |-> <<>>]
    ELSE LET nxt == FindNextAvailable(st, service, date, time) IN
         [available |-> FALSE,
          suggestion |-> IF nxt.found THEN nxt.time ELSE NoneVal,
          alternatives |-> ca.slots,
          other_options |-> IF allow_nearby THEN OtherOptions(service, time) ELSE <<>>]

\* mutant: the requested time is booked instead of the slot that was found
AutoBookAlternative_Requested(st, id, service, date, time) ==
    LET nxt == IF Truthy(time) THEN FindNextAvailable(st, service, date, time)
               ELSE FindNextAvailable(st, service, date, NoneVal) IN
    IF ~nxt.found
    THEN [ok |-> FALSE, err |-> ErrNoAlternative, store |-> st, booking |-> NoBooking]
    ELSE BookSlot(st, id, service, date, time, NoneVal)

AutoBookAlternative(st, id, service, date, time) ==
    LET nxt == IF Truthy(time) THEN FindNextAvailable(st, service, date, time)
               ELSE FindNextAvailable(st, service, date, NoneVal) IN
    IF ~nxt.found
    THEN [ok |-> FALSE, err |-> ErrNoAlternative, store |-> st, booking |-> NoBooking]
    ELSE BookSlot(st, id, service, date, nxt.time, NoneVal)

\* mutant: modify_booking moves the booking without checking the new slot
ModifyBooking_Unchecked(st, booking_id, new_date, new_time) ==
    IF ~\E i \in DOMAIN st : st[i].id = booking_id
    THEN [found |-> FALSE, ok |-> TRUE, err |-> NoErr, store |-> st]
    ELSE LET b == st[CHOOSE i \in DOMAIN st : st[i].id = booking_id]
         IN  [found |-> TRUE, ok |-> TRUE, err |-> NoErr,
              store |-> UpdateBooking(st, booking_id, OrElse(new_date, b.date),
                                      OrElse(new_time, b.time))]

\* mutant: the availability check leaves out the booking being modified
ModifyBooking_IgnoresSelf(st, booking_id, new_date, new_time) ==
    IF ~\E i \in DOMAIN st : st[i].id = booking_id
    THEN [found |-> FALSE, ok |-> TRUE, err |-> NoErr, store |-> st]
    ELSE LET b == st[CHOOSE i \in DOMAIN st : st[i].id = booking_id]
             date == OrElse(new_date, b.date)
             time == OrElse(new_time, b.time)
             others == SelectSeq(st, LAMBDA x : x.id # booking_id)
         IN  IF ~CheckAvailability(others, b.service, date, time).available
             THEN [found |-> TRUE, ok |-> FALSE, err |-> ErrModifyConflict, store |-> st]
             ELSE [found |-> TRUE, ok |-> TRUE, err |-> NoErr,
                   store |-> UpdateBooking(st, booking_id, date, time)]

\* modify_booking: found = FALSE is the `return None` of an unknown id
ModifyBooking(st, booking_id, new_date, new_time) ==
    IF ~\E i \in DOMAIN st : st[i].id = booking_id
    THEN [found |-> FALSE, ok |-> TRUE, err |-> NoErr, store |-> st]
    ELSE LET b == st[CHOOSE i \in DOMAIN st : st[i].id = booking_id]
             date == OrElse(new_date, b.date)
             time == OrElse(new_time, b.time)
         IN  IF ~CheckAvailability(st, b.service, date, time).available
             THEN [found |-> TRUE, ok |-> FALSE, err |-> ErrModifyConflict, store |-> st]
             ELSE [found |-> TRUE, ok |-> TRUE, err |-> NoErr,
                   store |-> UpdateBooking(st, booking_id, date, time)]

\* cancel_booking
CancelBooking(st, booking_id) == RemoveBooking(st, booking_id)

-----------------------------------------------------------------------------
(* booking_logic.py: extract_booking_state *)

SERVICES == <<"hotel", "flight", "appointment", "spa", "salon", "head spa", "hospital",
              "doctor", "travel">>

CITIES == <<"bangalore", "delhi", "mumbai", "chennai", "hyderabad", "mangalagiri",
            "vijayawada">>

DelegationPhrases == {"you decide", "you pick", "you choose", "book it", "do it",
                      "go ahead", "surprise me", "anything works", "i don't care",
                      "i dont care", "up to you", "whatever you think"}

CancelWords == {"cancel", "cancelled", "delete"}
ModifyWords == {"change", "modify", "reschedule"}
FacialWords == {"facial", "face", "skincare", "cleaning", "derma"}
DentalWords == {"dental", "dentist"}

\* fuzzy_map, in dict order
FuzzyMap == << <<"morning", "10:00 AM">>, <<"afternoon", "02:00 PM">>,
               <<"evening", "06:00 PM">>, <<"night", "08:00 PM">>,
               <<"noon", "12:00 PM">>, <<"after lunch", "02:00 PM">>,
               <<"before lunch", "11:30 AM">> >>

\* confidences, in hundredths
ConfService == 95
ConfRefined == 90
ConfDate == 90
ConfExactTime == 95
ConfFuzzyTime == 70
ConfLocation == 90
ConfDefaultService == 60
ConfDefaultDate == 60
ConfNextSlot == 75
ConfDefaultTime == 60
ConfStashedLocation == 80
ConfDefaultLocation == 50

DefaultService == "facial"
DefaultTime == "10:00 AM"

\* in\s+([a-zA-Z ]{3,30}) tried at position p: \s+ is greedy and gives white space
\* back until the group has its three characters
MatchInAt(t, p) ==
    LET w == SkipSpaces(t, p + 2) - (p + 2)
        ks == {k \in 1..w : ClassRun(t, p + 2 + k, 30) >= 3}
        g == p + 2 + MaxOf(ks)
    IN  IF Sub(t, p, p + 1) = "in" /\ ks # {}
        THEN [ok |-> TRUE, group |-> Sub(t, g, g + ClassRun(t, g, 30) - 1)]
        ELSE [ok |-> FALSE, group |-> ""]

SearchIn(t) ==
    LET hits == {p \in 1..Len(t) : MatchInAt(t, p).ok} IN
    IF hits = {} THEN [ok |-> FALSE, group |-> ""] ELSE MatchInAt(t, MinOf(hits))

\* what one turn's text holds, independent of the state built so far
Analyze(content, today) ==
    LET text == Lower(content)
        m_loc == SearchIn(text)
        fuzzy == SelectSeq(FuzzyMap, LAMBDA e : Contains(text, e[1]))
    IN  [m_loc |-> m_loc.ok,
         candidate |-> Lower(Strip(m_loc.group)),
         delegation |-> \E p \in DelegationPhrases : Contains(text, p),
         intent |-> IF \E w \in CancelWords : Contains(text, w) THEN "cancel"
                    ELSE IF \E w \in ModifyWords : Contains(text, w) THEN "modify"
                    ELSE "",
         services |-> SelectSeq(SERVICES, LAMBDA x : Contains(text, x)),
         facial |-> \E k \in FacialWords : Contains(text, k),
         dental |-> \E k \in DentalWords : Contains(text, k),
         date |-> ParseDate(text, today),
         time |-> NormalizeTime(text),
         fuzzy |-> IF fuzzy = <<>> THEN <<"", "">> ELSE fuzzy[1],
         cities |-> SelectSeq(CITIES, LAMBDA c : Contains(text, c))]

\* the locals of extract_booking_state before the loop
InitState ==
    [service |-> NoneVal, date |-> NoneVal, time |-> NoneVal, location |-> NoneVal,
     intent |-> "book", delegated |-> FALSE,
     location_auto_selected |-> FALSE, service_auto_selected |-> FALSE,
     confidences |-> [service |-> 0, date |-> 0, time |-> 0, location |-> 0],
     ambiguities |-> <<>>,
     explanations |-> <<>>,
     explicit_location |-> NoneVal,
     raised |-> FALSE]

Explain(st, clause) == [st EXCEPT !.explanations = Append(@, clause)]

\* line 95-107: the 'in <words>' pattern
StepPattern(st, f) ==
    IF ~f.m_loc THEN st
    ELSE IF InSeq(CITIES, f.candidate)
    THEN IF Falsy(st.location)
         THEN Explain([st EXCEPT !.location = f.candidate,
                                 !.confidences.location = ConfLocation],
                      "Location matched via pattern: " \o f.candidate)
         ELSE st
    ELSE Explain([st EXCEPT !.explicit_location = f.candidate],
                 "Explicit location mentioned: " \o f.candidate)

\* line 111-127: delegation phrases
StepDelegation(st, f) ==
    IF f.delegation
    THEN Explain([st EXCEPT !.delegated = TRUE],
                 "User delegated decision-making to assistant")
    ELSE st

\* mutant: the first intent keyword of the conversation wins
StepIntent_FirstWins(st, f) ==
    IF f.intent # "" /\ st.intent = "book" THEN [st EXCEPT !.intent = f.intent] ELSE st

\* line 130-133: intent
StepIntent(st, f) == IF f.intent # "" THEN [st EXCEPT !.intent = f.intent] ELSE st

\* line 136-140: the first keyword of SERVICES in the text, when service is unset
StepService(st, f) ==
    IF f.services # <<>> /\ Falsy(st.service)
    THEN Explain([st EXCEPT !.service = f.services[1],
                            !.confidences.service = ConfService],
                 "Service matched by keyword '" \o f.services[1] \o "'")
    ELSE st

\* mutant: any service already set is mapped to a sub-type
StepRefine_AnyService(st, f) ==
    IF Falsy(st.service) THEN st
    ELSE IF f.facial
    THEN Explain([st EXCEPT !.service = "facial", !.confidences.service = ConfRefined],
                 "Mapped generic 'appointment' to specific 'facial' based on user text")
    ELSE IF f.dental
    THEN Explain([st EXCEPT !.service = "dental", !.confidences.service = ConfRefined],
                 "Mapped generic 'appointment' to specific 'dental' based on user text")
    ELSE st

\* line 143-151: generic 'appointment' mapped to a sub-type
StepRefine(st, f) ==
    IF st.service # "appointment" THEN st
    ELSE IF f.facial
    THEN Explain([st EXCEPT !.service = "facial", !.confidences.service = ConfRefined],
                 "Mapped generic 'appointment' to specific 'facial' based on user text")
    ELSE IF f.dental
    THEN Explain([st EXCEPT !.service = "dental", !.confidences.service = ConfRefined],
                 "Mapped generic 'appointment' to specific 'dental' based on user text")
    ELSE st

\* mutant: a later date replaces the date an earlier turn set
StepDate_Latest(st, f) ==
    IF Truthy(f.date)
    THEN Explain([st EXCEPT !.date = f.date, !.confidences.date = ConfDate],
                 "Date parsed as " \o f.date)
    ELSE st

\* line 154-159: date
StepDate(st, f) ==
    IF Falsy(st.date) /\ Truthy(f.date)
    THEN Explain([st EXCEPT !.date = f.date, !.confidences.date = ConfDate],
                 "Date parsed as " \o f.date)
    ELSE st

\* mutant: an exact time replaces a time that an earlier turn set
StepTime_Overwrite(st, f) ==
    IF f.time.kind = "raise" THEN [st EXCEPT !.raised = TRUE]
    ELSE IF f.time.kind = "value"
    THEN Explain([st EXCEPT !.time = f.time.value,
                            !.confidences.time = ConfExactTime],
                 "Time normalized to " \o f.time.value)
    ELSE IF Truthy(st.time) THEN st
    ELSE IF f.fuzzy[1] # ""
    THEN Explain([st EXCEPT !.time = f.fuzzy[2], !.confidences.time = ConfFuzzyTime],
                 "Fuzzy time '" \o f.fuzzy[1] \o "' resolved to " \o f.fuzzy[2])
    ELSE st

\* line 162-185: time; normalize_time is called only while time is unset, and its
\* ValueError is not caught
StepTime(st, f) ==
    IF Truthy(st.time) THEN st
    ELSE IF f.time.kind = "raise" THEN [st EXCEPT !.raised = TRUE]
    ELSE IF f.time.kind = "value" /\ Truthy(f.time.value)
    THEN Explain([st EXCEPT !.time = f.time.value,
                            !.confidences.time = ConfExactTime],
                 "Time normalized to " \o f.time.value)
    ELSE IF f.fuzzy[1] # ""
    THEN Explain([st EXCEPT !.time = f.fuzzy[2], !.confidences.time = ConfFuzzyTime],
                 "Fuzzy time '" \o f.fuzzy[1] \o "' resolved to " \o f.fuzzy[2])
    ELSE st

\* line 188-192: the first city of CITIES in the text, when location is unset
StepCity(st, f) ==
    IF f.cities # <<>> /\ Falsy(st.location)
    THEN Explain([st EXCEPT !.location = f.cities[1],
                            !.confidences.location = ConfLocation],
                 "Location matched: " \o f.cities[1])
    ELSE st

\* mutant: the city keyword is looked for before the date and time
ApplyTurn_CityFirst(st, f) ==
    IF st.raised THEN st
    ELSE LET s5 == StepDate(StepCity(StepRefine(StepService(StepIntent(StepDelegation(
                       StepPattern(st, f), f), f), f), f), f), f)
             s6 == StepTime(s5, f)
         IN  IF s6.raised THEN [st EXCEPT !.raised = TRUE] ELSE s6

\* one iteration of the loop over messages; nothing runs after a raise
ApplyTurn(st, f) ==
    IF st.raised THEN st
    ELSE LET s5 == StepDate(StepRefine(StepService(StepIntent(StepDelegation(
                       StepPattern(st, f), f), f), f), f), f)
             s6 == StepTime(s5, f)
         IN  IF s6.raised THEN [st EXCEPT !.raised = TRUE] ELSE StepCity(s6, f)

\* line 199-204
DefaultServiceStep(st) ==
    IF Falsy(st.service)
    THEN Explain([st EXCEPT !.service = DefaultService,
                            !.service_auto_selected = TRUE,
                            !.confidences.service = ConfDefaultService],
                 "Defaulted service to 'facial' due to delegation")
    ELSE st

\* mutant: the defaulted date carries the confidence of a parsed date
DefaultDateStep_AsParsed(st, today_iso) ==
    IF Falsy(st.date)
    THEN Explain([st EXCEPT !.date = today_iso,
                            !.confidences.date = ConfDate - 5],
                 "Defaulted date to " \o today_iso \o " due to delegation")
    ELSE st

\* line 206-209
DefaultDateStep(st, today_iso) ==
    IF Falsy(st.date)
    THEN Explain([st EXCEPT !.date = today_iso,
                            !.confidences.date = ConfDefaultDate],
                 "Defaulted date to " \o today_iso \o " due to delegation")
    ELSE st

\* find_next_available raises when its store query does: with the store down (up
\* = FALSE) that is every call for a configured service; for any other service it
\* returns None before it queries
LookupRaises(service, up) == ~up /\ Configured(service)

\* mutant: the delegated time is always the static default
DefaultTimeWith_Static(st, bookings, up) ==
    IF Truthy(st.time) THEN st
    ELSE Explain([st EXCEPT !.time = DefaultTime,
                            !.confidences.time = ConfDefaultTime],
                 "Defaulted time to 10:00 AM due to delegation")

\* mutant: a failing lookup is not caught
DefaultTimeWith_NoExcept(st, bookings, up) ==
    IF Truthy(st.time) THEN st
    ELSE IF LookupRaises(st.service, up) THEN [st EXCEPT !.raised = TRUE]
    ELSE LET nxt == FindNextAvailable(bookings, st.service, st.date, NoneVal) IN
         IF nxt.found
         THEN Explain([st EXCEPT !.time = nxt.time, !.confidences.time = ConfNextSlot],
                      "Auto-selected next available slot " \o nxt.time
                          \o " for service " \o st.service)
         ELSE Explain([st EXCEPT !.time = DefaultTime,
                                 !.confidences.time = ConfDefaultTime],
                      "Defaulted time to 10:00 AM due to delegation (no available slots found)")

\* line 211-233: the next available slot of the service and date, else 10:00 AM;
\* also 10:00 AM when the lookup raises (line 229-233)
DefaultTimeWith(st, bookings, up) ==
    IF Truthy(st.time) THEN st
    ELSE IF Falsy(st.service)
    THEN Explain([st EXCEPT !.time = DefaultTime,
                            !.confidences.time = ConfDefaultTime],
                 "Defaulted time to 10:00 AM due to delegation")
    ELSE IF LookupRaises(st.service, up)
    THEN Explain([st EXCEPT !.time = DefaultTime,
                            !.confidences.time = ConfDefaultTime],
                 "Defaulted time to 10:00 AM due to delegation (slot lookup failed)")
    ELSE LET nxt == FindNextAvailable(bookings, st.service, st.date, NoneVal) IN
         IF nxt.found
         THEN Explain([st EXCEPT !.time = nxt.time, !.confidences.time = ConfNextSlot],
                      "Auto-selected next available slot " \o nxt.time
                          \o " for service " \o st.service)
         ELSE Explain([st EXCEPT !.time = DefaultTime,
                                 !.confidences.time = ConfDefaultTime],
                      "Defaulted time to 10:00 AM due to delegation (no available slots found)")

\* the same with a store that answers
DefaultTimeStep(st, bookings) == DefaultTimeWith(st, bookings, TRUE)

\* mutant: the flag is set for a stashed explicit location too
DefaultLocationStep_AlwaysFlag(st) ==
    IF Truthy(st.location) THEN st
    ELSE IF Truthy(st.explicit_location)
    THEN Explain([st EXCEPT !.location = st.explicit_location,
                            !.location_auto_selected = TRUE,
                            !.confidences.location = ConfStashedLocation],
                 "Used earlier mentioned location '" \o st.explicit_location
                     \o "' due to delegation")
    ELSE Explain([st EXCEPT !.location = CITIES[1],
                            !.location_auto_selected = TRUE,
                            !.confidences.location = ConfDefaultLocation],
                 "Auto-selected location " \o CITIES[1]
                     \o " due to delegation (assistant-chosen)")

\* line 235-244
DefaultLocationStep(st) ==
    IF Truthy(st.location) THEN st
    ELSE IF Truthy(st.explicit_location)
    THEN Explain([st EXCEPT !.location = st.explicit_location,
                            !.confidences.location = ConfStashedLocation],
                 "Used earlier mentioned location '" \o st.explicit_location
                     \o "' due to delegation")
    ELSE Explain([st EXCEPT !.location = CITIES[1],
                            !.location_auto_selected = TRUE,
                            !.confidences.location = ConfDefaultLocation],
                 "Auto-selected location " \o CITIES[1]
                     \o " due to delegation (assistant-chosen)")

\* "; ".join(explanations)
RECURSIVE JoinClauses(_)
JoinClauses(cs) ==
    IF cs = <<>> THEN ""
    ELSE IF Len(cs) = 1 THEN cs[1]
    ELSE cs[1] \o "; " \o JoinClauses(Tail(cs))

\* line 196-249: the delegation defaults and the returned dict.  `explanations` is
\* the list that `explanation` joins; `raised` marks a call that returned nothing.
PostPassWith(st, bookings, today, up) ==
    LET t == IF st.delegated /\ ~st.raised
             THEN DefaultTimeWith(DefaultDateStep(DefaultServiceStep(st),
                                                  Iso(today[1], today[2], today[3])),
                                  bookings, up)
             ELSE st
        d == IF st.delegated /\ ~t.raised THEN DefaultLocationStep(t) ELSE t
    IN  [service |-> d.service, date |-> d.date, time |-> d.time,
         location |-> d.location, intent |-> d.intent, delegated |-> d.delegated,
         location_auto_selected |-> d.location_auto_selected,
         service_auto_selected |-> d.service_auto_selected,
         confidences |-> d.confidences, ambiguities |-> d.ambiguities,
         explanation |-> JoinClauses(d.explanations),
         explanations |-> d.explanations,
         raised |-> d.raised]

\* the post-pass with a store that answers
PostPass(st, bookings, today) == PostPassWith(st, bookings, today, TRUE)

\* the loop over messages (line 91-192); a message is its content, the role is not read
RECURSIVE FoldTurns(_, _, _)
FoldTurns(st, features, k) ==
    IF k > Len(features) THEN st
    ELSE FoldTurns(ApplyTurn(st, features[k]), features, k + 1)

-----------------------------------------------------------------------------
(* explainability.py: compute_explainability_score.  Percentages and the score are *)
(* integers in hundredths of a point (16.62 is 1662).                              *)

\* sum(vals): the four confidences, in hundredths
ConfidenceSum(st) ==
    st.confidences.service + st.confidences.date + st.confidences.time
        + st.confidences.location

\* min(len(ambiguities) * 0.15, 0.45), in hundredths
AmbiguityPenalty(st) == MinOf({Len(st.ambiguities) * 15, 45})

\* the slot fields that are falsy
MissingFields(st) == {k \in SlotFields : Falsy(st[k])}

\* mutant: half the penalty per missing field
MissingPenalty_Half(st) == MinOf({Cardinality(MissingFields(st)) * 5, 30})

\* min(len(missing) * 0.1, 0.3), in hundredths
MissingPenalty(st) == MinOf({Cardinality(MissingFields(st)) * 10, 30})

\* max(0.0, min(1.0, raw)) * 100.0, in four-hundredths of a hundredth:
\* (sum / 4) * (1 - penalties) scaled by 400 * 100
ScoreTimes400(st) ==
    LET raw == ConfidenceSum(st) * (100 - AmbiguityPenalty(st) - MissingPenalty(st))
    IN  MaxOf({0, MinOf({40000, raw})})

\* round(score, 2) in hundredths.  The product is a binary floating-point number, so
\* a value that lies halfway between two hundredths goes to either neighbour.
RoundedScores(q) ==
    CASE q % 4 = 0 -> {q \div 4}
      [] q % 4 = 1 -> {q \div 4}
      [] q % 4 = 2 -> {q \div 4, q \div 4 + 1}
      [] q % 4 = 3 -> {q \div 4 + 1}

\* the breakdowns the call can return
ComputeExplainabilityScore(st) ==
    {[avg_confidence |-> ConfidenceSum(st) * 25,
      ambiguity_count |-> Len(st.ambiguities),
      ambiguity_penalty_pct |-> AmbiguityPenalty(st) * 100,
      missing_count |-> Cardinality(MissingFields(st)),
      missing_penalty_pct |-> MissingPenalty(st) * 100,
      score |-> sc] : sc \in RoundedScores(ScoreTimes400(st))}

\* no breakdown computed
NoExpl == [avg_confidence |-> 0, ambiguity_count |-> 0, ambiguity_penalty_pct |-> 0,
           missing_count |-> 0, missing_penalty_pct |-> 0, score |-> 0]

-----------------------------------------------------------------------------
(* clarifier.py: generate_clarifying_question *)

\* fuzzy_map of the clarifier
ClarifyRanges ==
    [w \in {"morning", "afternoon", "evening", "night", "noon", "after lunch"} |->
        CASE w = "morning" -> "between 7 AM and 11 AM"
          [] w = "afternoon" -> "between 12 PM and 4 PM"
          [] w = "evening" -> "between 4 PM and 9 PM"
          [] w = "night" -> "after 9 PM"
          [] w = "noon" -> "around 12 PM"
          [] w = "after lunch" -> "between 2 PM and 4 PM"]

\* line 21-24
AmbiguityQuestion(token) ==
    IF token \in DOMAIN ClarifyRanges
    THEN "When you say '" \o token \o "', do you mean " \o ClarifyRanges[token] \o "?"
    ELSE "Could you clarify what you mean by '" \o token \o "' for the time?"

\* line 31-38
LowConfidenceQuestion ==
    [f \in SlotFields |->
        CASE f = "location" -> "Which city or location do you prefer for this booking?"
          [] f = "service" -> "Which service would you like (e.g., spa, salon, doctor)?"
          [] f = "time" -> "What time of day do you prefer? (e.g., 9 AM, afternoon, evening)"
          [] f = "date" -> "On which date would you like the booking?"]

\* line 43-50
MissingQuestion ==
    [f \in SlotFields |->
        CASE f = "service" -> "Which service do you want to book? (spa, salon, doctor, etc.)"
          [] f = "date" -> "Which date would you prefer for this booking?"
          [] f = "time" -> "What time would you like?"
          [] f = "location" -> "Which city or location should I use for this booking?"]

\* the confidence threshold of the clarifier and of app.py, in hundredths
LowThreshold == 70

\* the keys of confidences below the threshold, in the dict's order
LowFields(st) == SelectSeq(SlotOrder, LAMBDA k : st.confidences[k] < LowThreshold)

\* mutant: a missing field is asked for before a low confidence
GenerateClarifyingQuestion_MissingFirst(st) ==
    LET missing == SelectSeq(SlotOrder, LAMBDA f : Falsy(st[f])) IN
    IF st.ambiguities # <<>> THEN AmbiguityQuestion(st.ambiguities[1])
    ELSE IF missing # <<>> THEN MissingQuestion[missing[1]]
    ELSE IF LowFields(st) # <<>> THEN LowConfidenceQuestion[LowFields(st)[1]]
    ELSE NoneVal

GenerateClarifyingQuestion(st) ==
    IF st.ambiguities # <<>> THEN AmbiguityQuestion(st.ambiguities[1])
    ELSE IF LowFields(st) # <<>> THEN LowConfidenceQuestion[LowFields(st)[1]]
    ELSE LET missing == SelectSeq(SlotOrder, LAMBDA f : Falsy(st[f])) IN
         IF missing # <<>> THEN MissingQuestion[missing[1]] ELSE NoneVal

\* mutant: a confidence at the threshold counts as low
SuggestedQuestion_AtThreshold(st) ==
    IF (\E k \in SlotFields : st.confidences[k] # 0 /\ st.confidences[k] <= LowThreshold)
       /\ ~st.delegated
    THEN GenerateClarifyingQuestion(st)
    ELSE NoneVal

\* app.py line 158-163: the question is asked for only when some confidence is set
\* and below the threshold and the user has not delegated
SuggestedQuestion(st) ==
    IF (\E k \in SlotFields : st.confidences[k] # 0 /\ st.confidences[k] < LowThreshold)
       /\ ~st.delegated
    THEN GenerateClarifyingQuestion(st)
    ELSE NoneVal

-----------------------------------------------------------------------------
(* Bounds and inputs *)

\* bookings created in one run (ids are 1..MaxBookings)
MaxBookings == 2

Date1 == "2099-01-01"
Date2 == "2099-01-02"
Dates == {Date1, Date2}

\* the calls made, as (service, date, time, location): both catalog times of one
\* tracked service on two dates, the same service with no time, one call of an
\* 'Anytime' service and one of a service without a catalog
Requests == ({"head spa"} \X Dates \X {"10:00 AM", "2:00 PM"} \X {NoneVal})
            \cup {<<"head spa", Date1, NoneVal, NoneVal>>,
                  <<"hotel", Date1, "10:00 AM", "bangalore">>,
                  <<"flight", Date1, "10:00 AM", NoneVal>>}

\* check_availability's date is Optional
CheckRequests == Requests \cup ({"head spa"} \X {NoneVal} \X {"10:00 AM", "2:00 PM"} \X {NoneVal})

\* modify_booking's (new_date, new_time)
Changes == {Date2, NoneVal} \X {"2:00 PM", NoneVal}

Ids == 1..MaxBookings

Procs == {1, 2}

\* turns of a conversation
MaxTurns == 2

\* datetime.now() of the run
Today == <<2099, 1, 1>>

\* what a user types in one turn
Turns == {"I want a spa on 2099-01-01 at 9am in Bangalore",
          "Book me a salon tomorrow evening",
          "Book an appointment for a facial in Vijayawada in the morning - you decide",
          "tomorrow at 2 pm in delhi",
          "reschedule to 5/3/99 18:00 mumbai",
          "around 13pm",
          "9:75 am",
          "14:30 works",
          "at 10:00 AM",
          "12 am",
          "you decide",
          "go ahead",
          "cancel it",
          "don't cancel, just change it",
          "head spa please",
          "an appointment",
          "dentist",
          "facial",
          "hotel in mumbai",
          "flight",
          "in goa",
          "in ooty, up to you",
          "in    , you decide",
          "in the morning",
          "delhi",
          "on 05/03/2099",
          "on 31/02/2099",
          "today",
          "this afternoon",
          "after lunch",
          "night"}

\* the analysis of each turn, computed once
\* what the language model may answer when details are missing: a question that
\* names nothing, and one that names cities
AssistantReplies == {"Which date would you like?",
                     "Sure, which city? We serve Delhi and Mumbai."}

\* texts that are no clock time, or hold digits that form none, and texts with a
\* no-break space, a vertical tab or an accented letter next to the time
OddTexts ==
    {"", "13pm", "9:75 am", "around 13pm", "13am", "0am", "9:3 pm", "25:00", "24:00",
     "12:60", "at 7", "noon", "14:30 works", "at 10:00 AM", "tomorrow at 2 pm in delhi",
     "9 am", "9:30 PM", "9am", "é9am", "13:30é"}

\* texts that are no date, or hold digits that form none
DateTexts ==
    {"", "today", "Tomorrow", "on 05/03/2099", "on 31/02/2099", "5/3/99", "29/02/2096",
     "29/02/2099", "0/0/0000", "99/99/9999", "2099-01-01", "2099-13-45", "2099-2-3",
     "next week", "13pm"}

\* what the user submits to the application: a complete request, a delegating one, a
\* bare delegation, two incomplete requests (one with a fuzzy time), a cancellation,
\* a cancellation that names every detail, a change, and a text normalize_time
\* raises on
AppTurns == {"I want a spa on 2099-01-01 at 9am in Bangalore",
             "Book an appointment for a facial in Vijayawada in the morning - you decide",
             "you decide",
             "hotel in mumbai",
             "Book me a salon tomorrow evening",
             "cancel it",
             "cancel my spa on 2099-01-02 at 9am in bangalore",
             "reschedule to 5/3/99 18:00 mumbai",
             "around 13pm"}

Analysis ==
    [t \in Turns \cup AppTurns \cup AssistantReplies \cup OddTexts \cup DateTexts |->
        Analyze(t, Today)]

\* the analysis of a message, looked up
Features(content) == Analysis[content]

\* extract_booking_state(messages), reading the bookings for the delegated time
ExtractWith(messages, bookings, up) ==
    PostPassWith(FoldTurns(InitState, [i \in DOMAIN messages |-> Features(messages[i])], 1),
                 bookings, Today, up)

\* the same with a store that answers
ExtractBookingState(messages, bookings) == ExtractWith(messages, bookings, TRUE)

\* the stores a conversation runs against: empty, with the first 'facial' slot of
\* today booked, and with the only 'hotel' slot of today booked as well
ExtractStores ==
    {<<>>,
     BookSlot(<<>>, 1, DefaultService, Date1, "10:00 AM", NoneVal).store,
     BookSlot(BookSlot(<<>>, 1, DefaultService, Date1, "10:00 AM", NoneVal).store,
              2, "hotel", Date1, "Anytime", NoneVal).store}

-----------------------------------------------------------------------------
(* The state machine of one process calling the slot engine *)

\* no parser, pricing or post-booking call has been made
NoCall == [fn |-> "none"]

\* no rate: an empty _FX_CACHE, or an answer of the rate service without an INR rate
NoRate == 0

NoLast == [op |-> "none", service |-> NoneVal, date |-> NoneVal, time |-> NoneVal,
           id |-> 0, ok |-> TRUE, err |-> NoErr, found |-> FALSE, available |-> FALSE,
           slots |-> <<>>, suggestion |-> NoneVal, other_options |-> <<>>,
           booking |-> NoBooking, pre |-> <<>>]

Call(op, service, date, time) ==
    [NoLast EXCEPT !.op = op, !.service = service, !.date = date, !.time = time,
                   !.pre = store]

NoProcs == [p \in Procs |-> [pc |-> "idle", service |-> NoneVal, date |-> NoneVal,
                             time |-> NoneVal, location |-> NoneVal,
                             ok |-> FALSE, id |-> 0]]

Init ==
    /\ store = <<>>
    /\ nextId = 0
    /\ last = NoLast
    /\ procs = NoProcs
    /\ msgs = <<>>
    /\ state = ExtractBookingState(<<>>, store)
    /\ expl = NoExpl
    /\ question = NoneVal
    /\ fxCache = NoRate
    /\ call = NoCall
    /\ sideRuns = 0

DoCheckAvailability ==
    \E q \in CheckRequests :
        LET r == CheckAvailability(store, q[1], q[2], q[3]) IN
        /\ last' = [Call("check_availability", q[1], q[2], q[3]) EXCEPT
                        !.available = r.available, !.slots = r.slots]
        /\ UNCHANGED <<store, nextId, procs, conv, aux>>

DoBookSlot ==
    \E q \in Requests :
        LET r == BookSlot(store, nextId + 1, q[1], q[2], q[3], q[4]) IN
        /\ nextId < MaxBookings
        /\ store' = r.store
        /\ nextId' = IF r.ok THEN nextId + 1 ELSE nextId
        /\ last' = [Call("book_slot", q[1], q[2], q[3]) EXCEPT
                        !.ok = r.ok, !.err = r.err, !.booking = r.booking]
        /\ UNCHANGED <<procs, conv, aux>>

DoFindNextAvailable ==
    \E q \in Requests :
        LET r == FindNextAvailable(store, q[1], q[2], q[3]) IN
        /\ last' = [Call("find_next_available", q[1], q[2], q[3]) EXCEPT
                        !.found = r.found, !.suggestion = r.time, !.slots = r.slots]
        /\ UNCHANGED <<store, nextId, procs, conv, aux>>

DoAttemptResolve ==
    \E q \in Requests :
        LET r == AttemptResolve(store, q[1], q[2], q[3], TRUE) IN
        /\ last' = [Call("attempt_resolve", q[1], q[2], q[3]) EXCEPT
                        !.available = r.available, !.suggestion = r.suggestion,
                        !.slots = r.alternatives, !.other_options = r.other_options]
        /\ UNCHANGED <<store, nextId, procs, conv, aux>>

DoAutoBookAlternative ==
    \E q \in Requests :
        LET r == AutoBookAlternative(store, nextId + 1, q[1], q[2], q[3]) IN
        /\ nextId < MaxBookings
        /\ store' = r.store
        /\ nextId' = IF r.ok THEN nextId + 1 ELSE nextId
        /\ last' = [Call("auto_book_alternative", q[1], q[2], q[3]) EXCEPT
                        !.ok = r.ok, !.err = r.err, !.booking = r.booking]
        /\ UNCHANGED <<procs, conv, aux>>

DoModifyBooking ==
    \E id \in Ids, c \in Changes :
        LET r == ModifyBooking(store, id, c[1], c[2]) IN
        /\ store' = r.store
        /\ last' = [Call("modify_booking", NoneVal, c[1], c[2]) EXCEPT
                        !.id = id, !.found = r.found, !.ok = r.ok, !.err = r.err]
        /\ UNCHANGED <<nextId, procs, conv, aux>>

DoCancelBooking ==
    \E id \in Ids :
        LET r == CancelBooking(store, id) IN
        /\ store' = r.store
        /\ last' = [Call("cancel_booking", NoneVal, NoneVal, NoneVal) EXCEPT
                        !.id = id, !.ok = r.changed]
        /\ UNCHANGED <<nextId, procs, conv, aux>>

DoResetBookings ==
    /\ store' = ResetBookings(store)
    /\ last' = Call("reset_bookings", NoneVal, NoneVal, NoneVal)
    /\ UNCHANGED <<nextId, procs, conv, aux>>

Next ==
    \/ DoCheckAvailability
    \/ DoBookSlot
    \/ DoFindNextAvailable
    \/ DoAttemptResolve
    \/ DoAutoBookAlternative
    \/ DoModifyBooking
    \/ DoCancelBooking
    \/ DoResetBookings

Spec == Init /\ [][Next]_vars

-----------------------------------------------------------------------------
(* Two processes in book_slot on the shared store.  The availability query   *)
(* (one SELECT) and the insert (one INSERT, committed) are separate steps;   *)
(* nothing is held between them.                                             *)

\* book_slot line 48-50: the query; a refused call raises
RaceCheck(p) ==
    \E q \in Requests :
        /\ procs[p].pc = "idle"
        /\ procs' = [procs EXCEPT ![p] =
              [pc |-> IF CheckAvailability(store, q[1], q[2], q[3]).available
                      THEN "checked" ELSE "done",
               service |-> q[1], date |-> q[2], time |-> q[3], location |-> q[4],
               ok |-> FALSE, id |-> 0]]
        /\ UNCHANGED <<store, nextId, last, conv, aux>>

\* book_slot line 52-59: add_booking, then return the booking
RaceInsert(p) ==
    /\ procs[p].pc = "checked"
    /\ store' = InsertStep(store, nextId + 1, procs[p].service, procs[p].date,
                           procs[p].time, procs[p].location)
    /\ nextId' = nextId + 1
    /\ procs' = [procs EXCEPT ![p].pc = "done", ![p].ok = TRUE, ![p].id = nextId + 1]
    /\ UNCHANGED <<last, conv, aux>>

RaceNext == \E p \in Procs : RaceCheck(p) \/ RaceInsert(p)

SpecRace == Init /\ [][RaceNext]_vars

-----------------------------------------------------------------------------
(* extract_booking_state applied to a conversation that grows by one message per  *)
(* call, then compute_explainability_score and the suggestion of app.py line      *)
(* 158-161 applied to the state it returned.  These are functions of the messages *)
(* and of the bookings read for the delegated time; they write nothing.  The      *)
(* whole handler of a chat input, with the booking and the reply it appends, is   *)
(* AppTurn.                                                                        *)

\* the content of a message of any role: extract_booking_state reads msg["content"]
\* of every message, the assistant's replies included
Messages == Turns \cup AssistantReplies

InitExtract ==
    /\ store \in ExtractStores
    /\ nextId = Len(store)
    /\ last = NoLast
    /\ procs = NoProcs
    /\ msgs = <<>>
    /\ state = ExtractBookingState(<<>>, store)
    /\ expl = NoExpl
    /\ question = NoneVal
    /\ fxCache = NoRate
    /\ call = NoCall
    /\ sideRuns = 0

\* mutant: a delegated extraction books the slot it chose
ExtractCall_BooksChoice ==
    \E t \in Messages :
        /\ Len(msgs) < MaxTurns
        /\ msgs' = Append(msgs, t)
        /\ state' = ExtractBookingState(msgs', store)
        /\ expl' \in IF state'.raised THEN {NoExpl} ELSE ComputeExplainabilityScore(state')
        /\ question' = IF state'.raised THEN NoneVal ELSE SuggestedQuestion(state')
        /\ store' = IF state'.delegated /\ ~state'.raised
                    THEN AddBooking(store, NewBooking(nextId + 1, state'.service,
                                                      state'.date, state'.time,
                                                      state'.location, EmptyMeta))
                    ELSE store
        /\ UNCHANGED <<nextId, last, procs, aux>>

\* extract_booking_state(messages + [message]), the score of the state and the
\* question suggested for it; nothing after extract is computed when it raises
ExtractCall ==
    \E t \in Messages :
        /\ Len(msgs) < MaxTurns
        /\ msgs' = Append(msgs, t)
        /\ state' = ExtractBookingState(msgs', store)
        /\ expl' \in IF state'.raised THEN {NoExpl} ELSE ComputeExplainabilityScore(state')
        /\ question' = IF state'.raised THEN NoneVal ELSE SuggestedQuestion(state')
        /\ UNCHANGED <<store, nextId, last, procs, aux>>

SpecExtract == InitExtract /\ [][ExtractCall]_vars

\* the same call while the store is unreachable: every query of the bookings raises
\* (bookings_store.find_bookings does not catch what sqlite3 raises)
ExtractCallOutage ==
    \E t \in Messages :
        /\ Len(msgs) < MaxTurns
        /\ msgs' = Append(msgs, t)
        /\ state' = ExtractWith(msgs', store, FALSE)
        /\ expl' \in IF state'.raised THEN {NoExpl} ELSE ComputeExplainabilityScore(state')
        /\ question' = IF state'.raised THEN NoneVal ELSE SuggestedQuestion(state')
        /\ UNCHANGED <<store, nextId, last, procs, aux>>

SpecOutage == InitExtract /\ [][ExtractCallOutage]_vars

-----------------------------------------------------------------------------
(* generate_clarifying_question applied to a booking state *)

\* the states handed to the clarifier: each slot field set or unset, each confidence
\* unset, below, at or above the threshold, and ambiguities empty, one known fuzzy
\* word, one word outside the clarifier's table, or two words
ClarifyConfidences == {0, 65, 70, 95}

ClarifyAmbiguities == {<<>>, <<"evening">>, <<"before lunch">>, <<"soonish", "night">>}

ClarifyInputs ==
    {[InitState EXCEPT !.service = v[1], !.date = v[2], !.time = v[3],
                       !.location = v[4], !.confidences = c, !.ambiguities = a] :
        v \in {NoneVal, "spa"} \X {NoneVal, Date1} \X {NoneVal, "9:00 AM"}
                 \X {NoneVal, "delhi"},
        c \in [SlotFields -> ClarifyConfidences],
        a \in ClarifyAmbiguities}

\* the call has not returned yet
Pending == "<pending>"

InitClarify ==
    /\ store = <<>>
    /\ nextId = 0
    /\ last = NoLast
    /\ procs = NoProcs
    /\ msgs = <<>>
    /\ state \in ClarifyInputs
    /\ expl = NoExpl
    /\ question = Pending
    /\ fxCache = NoRate
    /\ call = NoCall
    /\ sideRuns = 0

ClarifyCall ==
    /\ question = Pending
    /\ question' = GenerateClarifyingQuestion(state)
    /\ UNCHANGED <<store, nextId, last, procs, msgs, state, expl, aux>>

SpecClarify == InitClarify /\ [][ClarifyCall]_vars

-----------------------------------------------------------------------------
(* pricing.py: amounts are in hundredths of a currency unit, the confidence in *)
(* hundredths of a percent, an exchange rate in hundredths                      *)

\* str.upper() of one character: the sharp s becomes two letters.  The upper case
\* of the micro sign (U+039C) and of y with diaeresis (U+0178) lies beyond code
\* point 255, the last a string holds here: it is written as the escape \u039C,
\* \u0178, which is the upper case of no other text (a 'u' becomes 'U')
UpperCh(c) ==
    IF c \in LowerLetters THEN CHOOSE u \in DOMAIN UpperToLower : UpperToLower[u] = c
    ELSE IF c = "ß" THEN "SS"
    ELSE IF c = "µ" THEN "\\u039C"
    ELSE IF c = "ÿ" THEN "\\u0178"
    ELSE IF \E u \in DOMAIN AccentedToLower : AccentedToLower[u] = c
         THEN CHOOSE u \in DOMAIN AccentedToLower : AccentedToLower[u] = c
    ELSE c

\* str.upper()
RECURSIVE Upper(_)
Upper(t) ==
    IF t = "" THEN ""
    ELSE UpperCh(Ch(t, 1)) \o Upper(Sub(t, 2, Len(t)))

\* the base price of each listed service, in whole dollars
BASE_PRICES ==
    ("spa" :> 50) @@ ("salon" :> 40) @@ ("doctor" :> 100) @@ ("head spa" :> 60) @@
    ("facial" :> 27) @@ ("dental" :> 80) @@ ("hotel" :> 150) @@ ("travel" :> 80) @@
    ("appointment" :> 30) @@ ("flight" :> 200)

DefaultBase == 50

\* BASE_PRICES.get(service, 50.0)
BasePrice(service) ==
    IF service \in DOMAIN BASE_PRICES THEN BASE_PRICES[service] ELSE DefaultBase

\* mutant: the tiers open one step later
TierDiscount_Strict(confidence_pct) ==
    IF confidence_pct > 9000 THEN 15
    ELSE IF confidence_pct > 7500 THEN 10
    ELSE IF confidence_pct > 5000 THEN 5
    ELSE 0

\* the discount tiers
TierDiscount(confidence_pct) ==
    IF confidence_pct >= 9000 THEN 15
    ELSE IF confidence_pct >= 7500 THEN 10
    ELSE IF confidence_pct >= 5000 THEN 5
    ELSE 0

\* a meta argument: None, or a dict given by the values of its keys (None for an
\* absent key)
NoMeta == [is_dict |-> FALSE, loyalty_tier |-> NoneVal, currency |-> NoneVal]
Meta(loyalty_tier, currency) ==
    [is_dict |-> TRUE, loyalty_tier |-> loyalty_tier, currency |-> currency]

\* meta.get(key) guarded by `meta and`
MetaGet(meta, key) == IF meta.is_dict THEN meta[key] ELSE NoneVal

LoyaltyDiscount(meta) == IF MetaGet(meta, "loyalty_tier") = "gold" THEN 5 ELSE 0

Discount(confidence_pct, meta) == TierDiscount(confidence_pct) + LoyaltyDiscount(meta)

\* round(base * (1 - discount / 100.0), 2): base dollars are whole, so the product
\* is a whole number of cents
FinalUsd(service, confidence_pct, meta) ==
    BasePrice(service) * (100 - Discount(confidence_pct, meta))

INDIAN_CITIES ==
    {"bangalore", "bengaluru", "delhi", "mumbai", "chennai", "hyderabad",
     "vijayawada", "mangalagiri", "kolkata", "pune", "ahmedabad"}

\* mutant: an Indian city wins over meta.currency
Currency_CityFirst(meta, location) ==
    IF Truthy(location) /\ Lower(location) \in INDIAN_CITIES THEN "INR"
    ELSE IF Truthy(MetaGet(meta, "currency")) THEN Upper(MetaGet(meta, "currency"))
    ELSE "USD"

\* the currency selection
Currency(meta, location) ==
    IF Truthy(MetaGet(meta, "currency")) THEN Upper(MetaGet(meta, "currency"))
    ELSE IF Truthy(location) /\ Lower(location) \in INDIAN_CITIES THEN "INR"
    ELSE "USD"

DemoRate == 8200

\* the request to the rate service raised
FetchFailed == -1

\* line 67-72: requests.get is called when the cache is empty and FX_API_KEY is set
FetchAttempted(cache, api_key) == cache = NoRate /\ Truthy(api_key)

\* _get_rate: the cached rate, else the fetched rate when an API key is set and the
\* fetch gives one, else the demo rate; the rate returned is cached
GetRate(cache, api_key, fetched) ==
    IF cache # NoRate THEN cache
    ELSE IF Truthy(api_key) /\ fetched # FetchFailed /\ fetched # NoRate THEN fetched
    ELSE DemoRate

\* round(x, 2) of q / 100 hundredths; a float half goes either way
RoundedAmounts(q) ==
    CASE q % 100 < 50 -> {q \div 100}
      [] q % 100 = 50 -> {q \div 100, q \div 100 + 1}
      [] q % 100 > 50 -> {q \div 100 + 1}

\* calculate_price: the (final, discount, currency) it may return, with the rate it
\* used (NoRate when none was looked up), the cache it leaves and whether it called
\* the rate service
CalculatePrice(service, confidence_pct, meta, location, cache, api_key, fetched) ==
    LET discount == Discount(confidence_pct, meta)
        final_usd == FinalUsd(service, confidence_pct, meta)
        currency == Currency(meta, location)
        rate == GetRate(cache, api_key, fetched)
    IN  IF currency = "INR"
        THEN {[final |-> f, discount |-> discount, currency |-> currency,
               rate |-> rate, cache |-> rate,
               requested |-> FetchAttempted(cache, api_key)] :
                  f \in RoundedAmounts(final_usd * rate)}
        ELSE {[final |-> final_usd, discount |-> discount, currency |-> currency,
               rate |-> NoRate, cache |-> cache, requested |-> FALSE]}

-----------------------------------------------------------------------------
(* calculate_price called again and again in one process: _FX_CACHE lives on *)

\* a listed service, the cheapest one, and one that is not listed
PriceServices == {"spa", "facial", "massage"}

\* the confidences at, just below and away from each tier's threshold
PriceConfidences == {0, 4999, 5000, 7499, 7500, 7600, 8999, 9000, 10000}

PriceMetas ==
    {NoMeta, Meta(NoneVal, NoneVal), Meta("gold", NoneVal), Meta("silver", "inr"),
     Meta("gold", "usd"), Meta(NoneVal, "eur"), Meta(NoneVal, ""),
     Meta(NoneVal, "straße"), Meta(NoneVal, "inrµ")}

PriceLocations == {NoneVal, "", "vijayawada", "Delhi", "london"}

ApiKeys == {NoneVal, "key"}

\* a failing request, an answer with no usable rate, and two live rates
Fetches == {FetchFailed, NoRate, 8300, 8325}

\* the calls made: every service at every confidence with and without the gold tier,
\* priced in dollars and in rupees, and one service at one confidence with every
\* meta, location and answer of the rate service
PriceInputs ==
    (PriceServices \X PriceConfidences \X {NoMeta, Meta("gold", NoneVal)}
        \X {NoneVal, "vijayawada"} \X {NoneVal} \X {FetchFailed})
    \cup ({"facial"} \X {7600} \X PriceMetas \X PriceLocations \X ApiKeys \X Fetches)

InitPrice ==
    /\ store = <<>>
    /\ nextId = 0
    /\ last = NoLast
    /\ procs = NoProcs
    /\ msgs = <<>>
    /\ state = ExtractBookingState(<<>>, store)
    /\ expl = NoExpl
    /\ question = NoneVal
    /\ fxCache = NoRate
    /\ call = NoCall
    /\ sideRuns = 0

\* what a call of calculate_price leaves behind: the arguments, the cache it read,
\* the environment it met and what it returned
PriceRecord(q, seen, r) ==
    [fn |-> "calculate_price", service |-> q[1], confidence_pct |-> q[2],
     meta |-> q[3], location |-> q[4], cache |-> seen, api_key |-> q[5],
     fetched |-> q[6], final |-> r.final, discount |-> r.discount,
     currency |-> r.currency, rate |-> r.rate, requested |-> r.requested]

\* the calls priced in rupees
RupeeInputs == {q \in PriceInputs : Currency(q[3], q[4]) = "INR"}

\* The callers are the threads of one process (each session of the application runs
\* its script in a thread of its own; _FX_CACHE is a global of the module).  A call
\* that reads no rate, or finds one in the cache, touches _FX_CACHE in one read.  A
\* call that finds the cache empty (line 68) waits for requests.get (line 74) and
\* writes the cache afterwards (line 78 or 83): nothing is held in between, so this
\* is two steps.

\* a call in dollars (or another currency), or in rupees with a cached rate
PriceCall ==
    \E q \in PriceInputs :
        /\ Currency(q[3], q[4]) = "INR" => fxCache # NoRate
        /\ \E r \in CalculatePrice(q[1], q[2], q[3], q[4], fxCache, q[5], q[6]) :
               /\ call' = PriceRecord(q, fxCache, r)
               /\ fxCache' = r.cache
        /\ UNCHANGED <<store, nextId, last, procs, conv, sideRuns>>

\* line 68: thread p, pricing in rupees, finds no rate in the cache
PriceMiss(p) ==
    /\ procs[p].pc = "idle"
    /\ fxCache = NoRate
    /\ procs' = [procs EXCEPT ![p].pc = "miss"]
    /\ UNCHANGED <<store, nextId, last, conv, aux>>

\* line 70-91: thread p, having found the cache empty, gets its rate (the answer of
\* the rate service or the demo rate), writes it to the cache and returns.  What the
\* thread was called with is its own, so it is drawn here
PriceFill(p) ==
    /\ procs[p].pc = "miss"
    /\ \E q \in RupeeInputs :
           \E r \in CalculatePrice(q[1], q[2], q[3], q[4], NoRate, q[5], q[6]) :
               /\ call' = PriceRecord(q, NoRate, r)
               /\ fxCache' = r.cache
    /\ procs' = [procs EXCEPT ![p].pc = "idle"]
    /\ UNCHANGED <<store, nextId, last, conv, sideRuns>>

PriceNext == PriceCall \/ \E p \in Procs : PriceMiss(p) \/ PriceFill(p)

SpecPrice == InitPrice /\ [][PriceNext]_vars

-----------------------------------------------------------------------------
(* The parsers called on one text: normalize_time, _parse_date, and *)
(* extract_booking_state on a conversation of that one turn            *)

Periods == {"am", "pm", "AM", "PM"}

\* a clock time as a user writes it: with a meridiem ("12h"), with a meridiem and no
\* minutes ("12h-oclock"), or bare ("24h"); sep is what stands before the meridiem,
\* pad tells whether a one-digit hour is written with a leading zero
ClockInputs ==
    {[form |-> "12h", hour |-> h, minute |-> m, period |-> p, sep |-> sp, pad |-> FALSE] :
        h \in 1..12, m \in 0..59, p \in Periods, sp \in {"", " "}}
    \cup
    {[form |-> "12h-oclock", hour |-> h, minute |-> 0, period |-> p, sep |-> sp,
      pad |-> FALSE] :
        h \in 1..12, p \in Periods, sp \in {"", " "}}
    \cup
    {[form |-> "24h", hour |-> h, minute |-> m, period |-> "", sep |-> "", pad |-> pd] :
        h \in 0..23, m \in 0..59, pd \in BOOLEAN}

\* the text of a clock input
ClockText(c) ==
    LET hh == IF c.pad THEN Pad2(c.hour) ELSE ToString(c.hour) IN
    CASE c.form = "12h" -> hh \o ":" \o Pad2(c.minute) \o c.sep \o c.period
      [] c.form = "12h-oclock" -> hh \o c.sep \o c.period
      [] c.form = "24h" -> hh \o ":" \o Pad2(c.minute)

\* not a clock input: the text was given as it is
FreeText == [form |-> "text", hour |-> 0, minute |-> 0, period |-> "", sep |-> "",
             pad |-> FALSE]

ParseCall(fn, input, text, kind, value) ==
    [fn |-> fn, input |-> input, text |-> text, kind |-> kind, value |-> value]

InitParse ==
    /\ store = <<>>
    /\ nextId = 0
    /\ last = NoLast
    /\ procs = NoProcs
    /\ msgs = <<>>
    /\ state = ExtractBookingState(<<>>, store)
    /\ expl = NoExpl
    /\ question = NoneVal
    /\ fxCache = NoRate
    /\ call = NoCall
    /\ sideRuns = 0

\* normalize_time of each text of the parser calls, computed once
Normalized ==
    [t \in {ClockText(c) : c \in ClockInputs} \cup OddTexts |-> NormalizeTime(t)]

\* _parse_date of each text of the parser calls, computed once
ParsedDates == [t \in DateTexts |-> ParseDate(t, Today)]

\* normalize_time on a clock text
NormalizeClock ==
    \E c \in ClockInputs : \E t \in {ClockText(c)} : \E r \in {Normalized[t]} :
        /\ call = NoCall
        /\ call' = ParseCall("normalize_time", c, t, r.kind, r.value)
        /\ UNCHANGED <<store, nextId, last, procs, conv, fxCache, sideRuns>>

\* normalize_time on any other text
NormalizeText ==
    \E t \in OddTexts : \E r \in {Normalized[t]} :
        /\ call = NoCall
        /\ call' = ParseCall("normalize_time", FreeText, t, r.kind, r.value)
        /\ UNCHANGED <<store, nextId, last, procs, conv, fxCache, sideRuns>>

\* _parse_date on a text: it returns a date or None
ParseDateText ==
    \E t \in DateTexts : \E r \in {ParsedDates[t]} :
        /\ call = NoCall
        /\ call' = ParseCall("_parse_date", FreeText, t,
                             IF r = NoneVal THEN "none" ELSE "value", r)
        /\ UNCHANGED <<store, nextId, last, procs, conv, fxCache, sideRuns>>

\* extract_booking_state on the conversation of one turn: the time it returns, or
\* the error it raises
ExtractText ==
    \E t \in OddTexts \cup DateTexts : \E r \in {ExtractBookingState(<<t>>, store)} :
        /\ call = NoCall
        /\ call' = ParseCall("extract_booking_state", FreeText, t,
                             IF r.raised THEN "raise" ELSE "value",
                             IF r.raised THEN NoneVal ELSE r.time)
        /\ UNCHANGED <<store, nextId, last, procs, conv, fxCache, sideRuns>>

ParseNext == NormalizeClock \/ NormalizeText \/ ParseDateText \/ ExtractText

SpecParse == InitParse /\ [][ParseNext]_vars

-----------------------------------------------------------------------------
(* i18n.py; a step that depends on an optional library or a remote service has an *)
(* outcome: "missing" (the import failed), "raise" (the call failed) or a result   *)

Failures == {"missing", "raise"}

\* detect_language: outcome is the language code langdetect returns
DetectLanguage(text, outcome) ==
    IF Falsy(text) THEN NoneVal
    ELSE IF outcome \in Failures THEN NoneVal
    ELSE outcome

\* what the translation service returns for text: another text
Translated(text, dest) == "<" \o dest \o "> " \o text

\* mutant: a failed translation gives an empty text
TranslateText_Empty(text, dest, outcome) ==
    IF Falsy(text) \/ Falsy(dest) THEN text
    ELSE IF outcome \in Failures THEN ""
    ELSE Translated(text, dest)

\* translate_text
TranslateText(text, dest, outcome) ==
    IF Falsy(text) \/ Falsy(dest) THEN text
    ELSE IF outcome \in Failures THEN text
    ELSE Translated(text, dest)

-----------------------------------------------------------------------------
(* app.py: what one submitted chat input does (line 124-418) *)

\* the environment of a turn: the outcome of each optional step
Env(detect, api_key, fetched, translate, pdf_bytes, pdf_file, tts) ==
    [detect |-> detect, api_key |-> api_key, fetched |-> fetched,
     translate |-> translate, pdf_bytes |-> pdf_bytes, pdf_file |-> pdf_file,
     tts |-> tts]

\* line 140
TargetLang(user_lang) == IF user_lang \in {"te", "hi"} THEN user_lang ELSE "en"

\* line 130
Missing(st) == {k \in SlotFields : Falsy(st[k])}

\* line 240: round(100 - len(messages) * 2, 2), in hundredths of a percent
TurnConfidence(messages) == (100 - Len(messages) * 2) * 100

\* booking.get("meta") as calculate_price reads it: book_slot stores an empty dict
BookingMeta(booking) == Meta(NoneVal, NoneVal)

\* the summary, represented by its first line (line 300-311)
SummaryEn(booking) == "Booking ID: " \o ToString(booking.id)

\* line 313-317
TranslatedSummary(summary_en, target_lang, outcome) ==
    IF target_lang # "en" THEN TranslateText(summary_en, target_lang, outcome)
    ELSE summary_en

\* line 322-338: the receipt offered: built in memory, else through a file, else
\* none (the RuntimeError of line 338, caught on line 354)
PdfReceipt(env) ==
    IF env.pdf_bytes = "ok" THEN "bytes"
    ELSE IF env.pdf_file = "ok" THEN "file"
    ELSE "none"

\* line 340-352: reached only when a receipt was built
VoiceConfirmation(env) == PdfReceipt(env) # "none" /\ env.tts = "ok"

\* no post-booking flow ran
NoPost == [ran |-> FALSE, final |-> 0, discount |-> 0, currency |-> "", rate |-> NoRate,
           summary |-> "", pdf |-> "none", voice |-> FALSE, warning |-> FALSE,
           text_receipt |-> FALSE, error |-> FALSE]

\* line 238-402: the post-booking flow, given the price calculate_price returned
PostBooking(booking, price, target_lang, env) ==
    [ran |-> TRUE, final |-> price.final, discount |-> price.discount,
     currency |-> price.currency, rate |-> price.rate,
     summary |-> TranslatedSummary(SummaryEn(booking), target_lang, env.translate),
     pdf |-> PdfReceipt(env), voice |-> VoiceConfirmation(env),
     warning |-> PdfReceipt(env) = "none",
     text_receipt |-> TRUE, error |-> FALSE]

\* every optional step works; the user writes Telugu, a key is set and the rate
\* service answers 83.00
OkEnv == Env("te", "key", 8300, "ok", "ok", "ok", "ok")

\* one step fails at a time, then all of them
EnrichEnvs ==
    {OkEnv,
     Env("en", "key", 8300, "ok", "ok", "ok", "ok"),
     Env("missing", "key", 8300, "ok", "ok", "ok", "ok"),
     Env("raise", "key", 8300, "ok", "ok", "ok", "ok"),
     Env("te", NoneVal, 8300, "ok", "ok", "ok", "ok"),
     Env("te", "key", FetchFailed, "ok", "ok", "ok", "ok"),
     Env("te", "key", NoRate, "ok", "ok", "ok", "ok"),
     Env("te", "key", 8300, "missing", "ok", "ok", "ok"),
     Env("te", "key", 8300, "raise", "ok", "ok", "ok"),
     Env("te", "key", 8300, "ok", "raise", "ok", "ok"),
     Env("te", "key", 8300, "ok", "raise", "raise", "ok"),
     Env("te", "key", 8300, "ok", "ok", "ok", "raise"),
     Env("raise", "key", FetchFailed, "raise", "raise", "raise", "raise")}

\* the language model's answer, or the failure of the request
ReplyFailed == "<failed>"

\* no price was calculated
NoPrice == [final |-> 0, discount |-> 0, currency |-> "", rate |-> NoRate,
            cache |-> NoRate, requested |-> FALSE]

\* the run of one turn of the session under watch.  pc is where the run stands,
\* before its next access to the table of bookings or to _FX_CACHE, or inside a
\* wait for a remote service: "lookup" (find_next_available called by extract,
\* booking_logic.py line 214), "check" (app.py line 186), "recheck" and "suggest"
\* (attempt_resolve, slot_engine.py line 67 and 72), "choose" (auto_book_alternative,
\* line 94), "query" and "insert" (book_slot, line 48 and 52), "price" (pricing.py
\* line 68), "fetch" (line 74), "translate" (app.py line 315), "voice" (line 346),
\* "reply" (line 406) or "done".  k is the catalog entry a loop of
\* find_next_available queries next, time and location are what book_slot is called
\* with, booking and price what book_slot and calculate_price returned, branch names
\* the part of the handler the turn took, escaped tells whether an exception left
\* the handler.  user_lang and target_lang are not assigned before extract has
\* returned (line 137-140); they stand as no language and English until then
TurnCall(text, pc) ==
    [fn |-> "turn", text |-> text, pressed |-> FALSE, env |-> OkEnv,
     user_lang |-> NoneVal, target_lang |-> "en",
     branch |-> "", escaped |-> FALSE, booked |-> FALSE, post |-> NoPost,
     pc |-> pc, k |-> 1, time |-> NoneVal, location |-> NoneVal,
     booking |-> NoBooking, price |-> NoPrice]

\* how langdetect may end: the outcomes of the environments
Detections == {env.detect : env \in EnrichEnvs}

\* line 133-140: detect_language on the last message ends as d
Detected(c, d) ==
    [c EXCEPT !.env = [c.env EXCEPT !.detect = d],
              !.user_lang = DetectLanguage(c.text, d),
              !.target_lang = TargetLang(DetectLanguage(c.text, d))]

\* the run ends
Ended(c) == [c EXCEPT !.pc = "done", !.k = 1]

InitApp ==
    /\ store = <<>>
    /\ nextId = 0
    /\ last = NoLast
    /\ procs = NoProcs
    /\ msgs = <<>>
    /\ state = ExtractBookingState(<<>>, store)
    /\ expl = NoExpl
    /\ question = NoneVal
    /\ fxCache = NoRate
    /\ call = NoCall
    /\ sideRuns = 0

\* The sessions of the application are threads of one server process: they share
\* bookings.db and pricing._FX_CACHE, and each has a conversation of its own.  Every
\* access to the table is a statement on a connection of its own, committed at once,
\* and nothing is held from one access to the next.  One session is under watch:
\* msgs, state, expl, question and call are its own.  The other sessions (procs)
\* press the buttons of the admin panel and submit a first message.  A step of a run
\* is one access to the table or to _FX_CACHE together with the local computation
\* that follows it, up to the next access or wait.  What a button returns and how an
\* optional step ends are drawn where the run reaches them: langdetect when extract
\* has returned, the rest of the environment at calculate_price.

\* runs of the script: every submitted message and every press of a button runs
\* app.py once more
MaxRuns == 2

\* the runs of the script started so far
Runs == Len(SelectSeq(msgs, LAMBDA m : m \in AppTurns)) + sideRuns

\* the session under watch has no run in progress
Idle == call.fn = "turn" => call.pc = "done"

\* the run of the session under watch stands at pc
At(pc) == call.fn = "turn" /\ call.pc = pc

\* booking_logic.py line 196-214: whether extract, its loop over the messages having
\* left l, calls find_next_available, and the service and date it passes
LookupFor(l) ==
    [needed |-> /\ ~l.raised
                /\ l.delegated
                /\ Falsy(l.time)
                /\ Configured(IF Falsy(l.service) THEN DefaultService ELSE l.service),
     service |-> IF Falsy(l.service) THEN DefaultService ELSE l.service,
     date |-> IF Falsy(l.date) THEN Iso(Today[1], Today[2], Today[3]) ELSE l.date]

\* line 91-214 for a conversation
LookupOf(messages) ==
    LookupFor(FoldTurns(InitState, [i \in DOMAIN messages |-> Features(messages[i])], 1))

\* slot_engine.py line 110-114: the catalog entries the loop of find_next_available
\* queries, in order
LoopSlots(service, after_time) ==
    IF Configured(service)
    THEN SelectSeq(AVAILABLE_SLOTS[service],
                   LAMBDA s : ~(Truthy(after_time) /\ s = after_time))
    ELSE <<>>

\* line 116-119: the k-th query of the loop: the entry is returned when it has no
\* booking; more tells whether the loop goes on
Probe(bookings, service, date, slots, k) ==
    IF k > Len(slots) THEN [found |-> FALSE, more |-> FALSE, time |-> NoneVal]
    ELSE IF FindBookings(bookings, service, date, slots[k]) = <<>>
    THEN [found |-> TRUE, more |-> FALSE, time |-> slots[k]]
    ELSE [found |-> FALSE, more |-> k < Len(slots), time |-> NoneVal]

\* what a loop over the whole catalog has seen when its first n queries found a
\* booking and the next one did not: rows for the first n entries
Seen(service, date, n) ==
    [i \in 1..n |-> NewBooking(i, service, date, AVAILABLE_SLOTS[service][i], NoneVal,
                               EmptyMeta)]

\* app.py line 129-184: extract has returned (seen is what its lookup read); an
\* error of extract ends the run; the language of the message is detected; a
\* clarifying question may be appended; nothing happens for a modification; a
\* complete state goes on to check_availability, an incomplete one to the language
\* model
Extracted(messages, seen, c) ==
    /\ state' = ExtractBookingState(messages, seen)
    /\ expl' \in IF state'.raised THEN {NoExpl} ELSE ComputeExplainabilityScore(state')
    /\ question' = IF state'.raised THEN NoneVal ELSE SuggestedQuestion(state')
    /\ IF state'.raised
       THEN /\ msgs' = messages
            /\ call' = [Ended(c) EXCEPT !.branch = "raise", !.escaped = TRUE]
       ELSE \E d \in Detections :
            \E u \in {Detected(c, d)} :
            \E pressed \in BOOLEAN :
            IF question' # NoneVal /\ pressed
            THEN /\ msgs' = Append(messages, question')
                 /\ call' = [Ended(u) EXCEPT !.branch = "clarify", !.pressed = TRUE]
            ELSE /\ msgs' = messages
                 /\ call' = IF state'.intent = "modify"
                            THEN [Ended(u) EXCEPT !.branch = "modify"]
                            ELSE IF Missing(state') = {}
                            THEN [u EXCEPT !.pc = "check", !.k = 1, !.branch = "book"]
                            ELSE [u EXCEPT !.pc = "reply", !.k = 1,
                                           !.branch = "continue"]

\* line 124-129: the message is appended and extract runs up to its first query of
\* the table, or to its end when it makes none (it has read no booking then)
AppTurn ==
    \E t \in AppTurns :
        /\ Runs < MaxRuns
        /\ Idle
        /\ Len(SelectSeq(msgs, LAMBDA m : m \in AppTurns)) < MaxTurns
        /\ IF LookupOf(Append(msgs, t)).needed
           THEN /\ msgs' = Append(msgs, t)
                /\ call' = TurnCall(t, "lookup")
                /\ UNCHANGED <<state, expl, question>>
           ELSE Extracted(Append(msgs, t), <<>>, TurnCall(t, "done"))
        /\ UNCHANGED <<store, nextId, last, procs, fxCache, sideRuns>>

\* booking_logic.py line 214: one query of find_next_available's loop; extract
\* returns when an entry has no booking or the catalog is exhausted
AppLookup ==
    /\ At("lookup")
    /\ \E q \in {LookupOf(msgs)} :
       \E r \in {Probe(store, q.service, q.date, LoopSlots(q.service, NoneVal), call.k)} :
           IF r.more
           THEN /\ call' = [call EXCEPT !.k = call.k + 1]
                /\ UNCHANGED conv
           ELSE Extracted(msgs,
                          Seen(q.service, q.date, IF r.found THEN call.k - 1 ELSE call.k),
                          call)
    /\ UNCHANGED <<store, nextId, last, procs, fxCache, sideRuns>>

\* app.py line 186-232: check_availability, then the branch: a delegated state
\* shows 'Confirm auto-booking' and calls book_slot when it is pressed; a taken slot
\* goes to attempt_resolve; a free one to book_slot
AppCheck ==
    /\ At("check")
    /\ \E pressed \in BOOLEAN :
           call' = IF state.delegated
                   THEN IF pressed
                        THEN [call EXCEPT !.pc = "query", !.pressed = TRUE,
                                          !.time = state.time,
                                          !.location = state.location]
                        ELSE Ended(call)
                   ELSE IF ~CheckAvailability(store, state.service, state.date,
                                              state.time).available
                   THEN [call EXCEPT !.pc = "recheck"]
                   ELSE [call EXCEPT !.pc = "query", !.time = state.time,
                                     !.location = state.location]
    /\ UNCHANGED <<store, nextId, last, procs, conv, fxCache, sideRuns>>

\* slot_engine.py line 67-69: attempt_resolve asks again; when the slot is free by
\* now the suggestion is the requested time and the button is shown at once
AppRecheck ==
    /\ At("recheck")
    /\ \E pressed \in BOOLEAN :
           call' = IF ~CheckAvailability(store, state.service, state.date,
                                         state.time).available
                   THEN [call EXCEPT !.pc = "suggest", !.k = 1]
                   ELSE IF pressed
                   THEN [call EXCEPT !.pc = "choose", !.k = 1, !.pressed = TRUE]
                   ELSE Ended(call)
    /\ UNCHANGED <<store, nextId, last, procs, conv, fxCache, sideRuns>>

\* slot_engine.py line 72, app.py line 219-222: one query of the loop that looks for
\* the suggestion; with a suggestion the button 'Auto-book suggested slot' is shown
\* and, pressed, calls auto_book_alternative
AppSuggest ==
    /\ At("suggest")
    /\ \E r \in {Probe(store, state.service, state.date,
                       LoopSlots(state.service, state.time), call.k)} :
       \E pressed \in BOOLEAN :
           call' = IF r.more THEN [call EXCEPT !.k = call.k + 1]
                   ELSE IF r.found /\ pressed
                   THEN [call EXCEPT !.pc = "choose", !.k = 1, !.pressed = TRUE]
                   ELSE Ended(call)
    /\ UNCHANGED <<store, nextId, last, procs, conv, fxCache, sideRuns>>

\* slot_engine.py line 92-102: one query of auto_book_alternative's own loop; the
\* entry found is passed to book_slot, with no location; without one it raises
\* (caught on app.py line 227)
AppChoose ==
    /\ At("choose")
    /\ \E r \in {Probe(store, state.service, state.date,
                       LoopSlots(state.service, state.time), call.k)} :
           call' = IF r.more THEN [call EXCEPT !.k = call.k + 1]
                   ELSE IF r.found
                   THEN [call EXCEPT !.pc = "query", !.k = 1, !.time = r.time,
                                     !.location = NoneVal]
                   ELSE Ended(call)
    /\ UNCHANGED <<store, nextId, last, procs, conv, fxCache, sideRuns>>

\* slot_engine.py line 48-50: book_slot's query; a taken slot raises (caught on
\* app.py line 208, 227 or 233)
AppQuery ==
    /\ At("query")
    /\ call' = IF CheckAvailability(store, state.service, state.date,
                                    call.time).available
               THEN [call EXCEPT !.pc = "insert"]
               ELSE Ended(call)
    /\ UNCHANGED <<store, nextId, last, procs, conv, fxCache, sideRuns>>

\* slot_engine.py line 52-59: add_booking inserts the row, whatever the table holds
\* by now
AppInsert ==
    /\ At("insert")
    /\ store' = InsertStep(store, nextId + 1, state.service, state.date, call.time,
                           call.location)
    /\ nextId' = nextId + 1
    /\ call' = [call EXCEPT !.pc = "price", !.booked = TRUE,
                            !.booking = NewBooking(nextId + 1, state.service,
                                                   state.date, call.time,
                                                   call.location, EmptyMeta)]
    /\ UNCHANGED <<last, procs, conv, fxCache, sideRuns>>

\* app.py line 243, pricing.py line 29-68: calculate_price returns at once (dollars,
\* or a rate found in the cache) or finds the cache empty.  The environment is one
\* in which langdetect ended as it did in this run
AppPrice ==
    /\ At("price")
    /\ \E env \in {e \in EnrichEnvs : e.detect = call.env.detect} :
       \E c \in {[call EXCEPT !.env = env]} :
           IF /\ Currency(BookingMeta(call.booking), call.booking.location) = "INR"
              /\ fxCache = NoRate
           THEN /\ call' = [c EXCEPT !.pc = "fetch"]
                /\ fxCache' = fxCache
           ELSE \E price \in CalculatePrice(call.booking.service, TurnConfidence(msgs),
                                            BookingMeta(call.booking),
                                            call.booking.location, fxCache,
                                            env.api_key, env.fetched) :
                    /\ call' = [c EXCEPT !.pc = "translate", !.price = price]
                    /\ fxCache' = price.cache
    /\ UNCHANGED <<store, nextId, last, procs, conv, sideRuns>>

\* pricing.py line 70-91: the run that found the cache empty gets its rate (the
\* answer of the rate service, or the demo rate), writes it to the cache whatever
\* the cache holds by now, and calculate_price returns
AppRate ==
    /\ At("fetch")
    /\ \E price \in CalculatePrice(call.booking.service, TurnConfidence(msgs),
                                   BookingMeta(call.booking), call.booking.location,
                                   NoRate, call.env.api_key, call.env.fetched) :
           /\ fxCache' = price.cache
           /\ call' = [call EXCEPT !.pc = "translate", !.price = price]
    /\ UNCHANGED <<store, nextId, last, procs, conv, sideRuns>>

\* app.py line 245-338: the summary is translated and the receipt built; without a
\* receipt the voice step is skipped (line 338, 354) and the run ends
AppTranslate ==
    /\ At("translate")
    /\ call' = IF PdfReceipt(call.env) = "none"
               THEN [Ended(call) EXCEPT !.post = PostBooking(call.booking, call.price,
                                                             call.target_lang, call.env)]
               ELSE [call EXCEPT !.pc = "voice"]
    /\ UNCHANGED <<store, nextId, last, procs, conv, fxCache, sideRuns>>

\* line 340-402: the voice confirmation and the text receipt
AppVoice ==
    /\ At("voice")
    /\ call' = [Ended(call) EXCEPT !.post = PostBooking(call.booking, call.price,
                                                        call.target_lang, call.env)]
    /\ UNCHANGED <<store, nextId, last, procs, conv, fxCache, sideRuns>>

\* line 406-415: the language model answers and the reply is appended, or the
\* request fails and the error leaves the handler
AppReply ==
    /\ At("reply")
    /\ \E reply \in AssistantReplies \cup {ReplyFailed} :
           IF reply = ReplyFailed
           THEN /\ call' = [Ended(call) EXCEPT !.escaped = TRUE]
                /\ msgs' = msgs
           ELSE /\ call' = Ended(call)
                /\ msgs' = Append(msgs, reply)
    /\ UNCHANGED <<store, nextId, last, procs, state, expl, question, fxCache, sideRuns>>

\* line 431-437: the button 'Reset bookings database', pressed in any session:
\* reset_bookings is one DELETE, committed
AdminReset ==
    /\ Runs < MaxRuns
    /\ store' = ResetBookings(store)
    /\ sideRuns' = sideRuns + 1
    /\ UNCHANGED <<nextId, last, procs, conv, fxCache, call>>

\* the demos seed_demo_bookings has inserted when its run stands at pc
Seeded == [seed1 |-> 1, seed2 |-> 2]

\* line 439-445: the button 'Seed demo bookings', pressed in session p:
\* seed_demo_bookings inserts and commits the first demo (bookings_store.py line
\* 176-190, add_booking line 91-111)
AdminSeed(p) ==
    /\ Runs < MaxRuns
    /\ procs[p].pc = "idle"
    /\ store' = AddBooking(store, DemoBooking(1, nextId + 1, Today))
    /\ nextId' = nextId + 1
    /\ sideRuns' = sideRuns + 1
    /\ procs' = [procs EXCEPT ![p].pc = "seed1"]
    /\ UNCHANGED <<last, conv, fxCache, call>>

\* the next add_booking of the loop: one more demo inserted and committed
SeedAdd(p) ==
    /\ procs[p].pc \in DOMAIN Seeded
    /\ store' = AddBooking(store, DemoBooking(Seeded[procs[p].pc] + 1, nextId + 1, Today))
    /\ nextId' = nextId + 1
    /\ procs' = [procs EXCEPT ![p].pc = IF Seeded[procs[p].pc] + 1 = Len(Demos)
                                        THEN "idle" ELSE "seed2"]
    /\ UNCHANGED <<last, conv, aux>>

\* the first message of another session: a complete request, and a cancellation
\* that names every detail
OtherTurns == {"I want a spa on 2099-01-01 at 9am in Bangalore",
               "cancel my spa on 2099-01-02 at 9am in bangalore"}

\* what the rate service answers another session: a failure, or a live rate
OtherFetches == {FetchFailed, 8325}

\* app.py line 124-232 in session p, whose conversation is this one message: the
\* state is complete and names its time, so extract reads no booking; line 186 finds
\* the slot free and book_slot is called (a run that finds it taken shows a button
\* and ends)
OtherTurn(p) ==
    \E t \in OtherTurns :
    \E st \in {ExtractBookingState(<<t>>, <<>>)} :
        /\ Runs < MaxRuns
        /\ procs[p].pc = "idle"
        /\ CheckAvailability(store, st.service, st.date, st.time).available
        /\ sideRuns' = sideRuns + 1
        /\ procs' = [procs EXCEPT ![p] = [pc |-> "query", service |-> st.service,
                                          date |-> st.date, time |-> st.time,
                                          location |-> st.location,
                                          ok |-> FALSE, id |-> 0]]
        /\ UNCHANGED <<store, nextId, last, conv, fxCache, call>>

\* slot_engine.py line 48-50 in session p
OtherQuery(p) ==
    /\ procs[p].pc = "query"
    /\ procs' = [procs EXCEPT ![p] =
                    IF CheckAvailability(store, procs[p].service, procs[p].date,
                                         procs[p].time).available
                    THEN [procs[p] EXCEPT !.pc = "insert"]
                    ELSE NoProcs[p]]
    /\ UNCHANGED <<store, nextId, last, conv, aux>>

\* slot_engine.py line 52-59 in session p
OtherInsert(p) ==
    /\ procs[p].pc = "insert"
    /\ store' = InsertStep(store, nextId + 1, procs[p].service, procs[p].date,
                           procs[p].time, procs[p].location)
    /\ nextId' = nextId + 1
    /\ procs' = [procs EXCEPT ![p].pc = "price", ![p].ok = TRUE, ![p].id = nextId + 1]
    /\ UNCHANGED <<last, conv, aux>>

\* pricing.py line 68 in session p: the cache holds a rate, or it is empty; what
\* follows in the run reads nothing shared
OtherPrice(p) ==
    /\ procs[p].pc = "price"
    /\ procs' = [procs EXCEPT ![p] =
                    IF /\ Currency(Meta(NoneVal, NoneVal), procs[p].location) = "INR"
                       /\ fxCache = NoRate
                    THEN [procs[p] EXCEPT !.pc = "fetch"]
                    ELSE NoProcs[p]]
    /\ UNCHANGED <<store, nextId, last, conv, aux>>

\* pricing.py line 70-91 in session p, where FX_API_KEY is set: the answer arrives
\* and the rate is written to the cache
OtherRate(p) ==
    /\ procs[p].pc = "fetch"
    /\ \E f \in OtherFetches : fxCache' = GetRate(NoRate, "key", f)
    /\ procs' = [procs EXCEPT ![p] = NoProcs[p]]
    /\ UNCHANGED <<store, nextId, last, conv, call, sideRuns>>

AppNext ==
    \/ AppTurn
    \/ AppLookup
    \/ AppCheck
    \/ AppRecheck
    \/ AppSuggest
    \/ AppChoose
    \/ AppQuery
    \/ AppInsert
    \/ AppPrice
    \/ AppRate
    \/ AppTranslate
    \/ AppVoice
    \/ AppReply
    \/ AdminReset
    \/ \E p \in Procs : \/ AdminSeed(p)
                        \/ SeedAdd(p)
                        \/ OtherTurn(p)
                        \/ OtherQuery(p)
                        \/ OtherInsert(p)
                        \/ OtherPrice(p)
                        \/ OtherRate(p)

SpecApp == InitApp /\ [][AppNext]_vars

-----------------------------------------------------------------------------
(* Properties of the slot engine *)

\* some booking of st has exactly this service, date and time
Occupied(st, service, date, time) ==
    \E i \in DOMAIN st : /\ st[i].service = service
                         /\ st[i].date = date
                         /\ st[i].time = time

\* the catalog of a configured service without its entries equal to time
CatalogWithout(service, time) ==
    SelectSeq(AVAILABLE_SLOTS[service], LAMBDA s : s # time)

\* the positions of the catalog entries that differ from after_time and have no
\* booking on that date
FreePositions(st, service, date, after_time) ==
    {i \in DOMAIN AVAILABLE_SLOTS[service] :
        /\ AVAILABLE_SLOTS[service][i] # after_time
        /\ ~Occupied(st, service, date, AVAILABLE_SLOTS[service][i])}

\* the booking cancel_booking was called on, as it was before the call
Cancelled == {last.pre[i] : i \in {j \in DOMAIN last.pre : last.pre[j].id = last.id}}

\* C1: for a tracked service (configured, no 'Anytime') and a non-empty time, right
\* after a successful book_slot the slot is reported unavailable, and right after a
\* cancel_booking that returned true the cancelled booking's slot is reported
\* available again.
C1_RoundTrip ==
    /\ (last.op = "book_slot" /\ last.ok /\ Tracked(last.service) /\ Truthy(last.time))
          => ~CheckAvailability(store, last.service, last.date, last.time).available
    /\ (last.op = "cancel_booking" /\ last.ok)
          => \A b \in Cancelled :
                (Tracked(b.service) /\ Truthy(b.time))
                   => CheckAvailability(store, b.service, b.date, b.time).available

C1_Witness ==
    /\ last.op = "cancel_booking"
    /\ last.ok
    /\ \E b \in Cancelled : /\ Tracked(b.service)
                            /\ Truthy(b.time)
                            /\ Occupied(last.pre, b.service, b.date, b.time)
                            /\ ~Occupied(store, b.service, b.date, b.time)

\* C2: book_slot on a tracked service and non-empty time whose slot already has a
\* booking fails with the conflict error and leaves the store exactly as it was.
C2_ConflictLeavesStore ==
    (/\ last.op = "book_slot"
     /\ Tracked(last.service)
     /\ Truthy(last.time)
     /\ Occupied(last.pre, last.service, last.date, last.time))
        => /\ ~last.ok
           /\ last.err = ErrConflict
           /\ store = last.pre

C2_Witness ==
    /\ last.op = "book_slot"
    /\ Tracked(last.service)
    /\ Truthy(last.time)
    /\ Occupied(last.pre, last.service, last.date, last.time)
    /\ last.err = ErrConflict

\* what C3 says of a check_availability result
C3_Body ==
    LET free == ~Occupied(store, last.service, last.date, last.time) IN
    /\ last.available <=> free
    /\ last.slots = IF free THEN AVAILABLE_SLOTS[last.service]
                    ELSE CatalogWithout(last.service, last.time)

\* C3 as claimed: for a tracked service and a non-empty time, check_availability is
\* available iff no booking has exactly that (service, date, time), and returns the
\* catalog, without the requested time when unavailable.
C3_Original ==
    (last.op = "check_availability" /\ Tracked(last.service) /\ Truthy(last.time))
        => C3_Body

\* C3 amended: the same, for a non-empty date; with an empty date the date is not
\* compared, and the slot is unavailable iff some booking of any date has that
\* service and time.
C3_Amended ==
    (last.op = "check_availability" /\ Tracked(last.service) /\ Truthy(last.time))
        => IF Truthy(last.date) THEN C3_Body
           ELSE LET free == \A i \in DOMAIN store :
                                ~(store[i].service = last.service
                                  /\ store[i].time = last.time) IN
                /\ last.available <=> free
                /\ last.slots = IF free THEN AVAILABLE_SLOTS[last.service]
                                ELSE CatalogWithout(last.service, last.time)

C3_Witness ==
    /\ last.op = "check_availability"
    /\ Tracked(last.service)
    /\ Truthy(last.time)
    /\ Truthy(last.date)
    /\ ~last.available
    /\ Len(last.slots) = Len(AVAILABLE_SLOTS[last.service]) - 1
    /\ \E i \in DOMAIN store : store[i].service = last.service
                               /\ store[i].time = last.time
                               /\ store[i].date # last.date

\* C4: check_availability is available whatever the store holds when the service
\* has no catalog (list ['Anytime']), when its catalog holds 'Anytime' (list: the
\* catalog) and when no time is requested (list: the catalog); book_slot on such a
\* request never conflicts and appends its booking, also to bookings of the same
\* (service, date, time).
C4_AlwaysAvailable ==
    /\ last.op = "check_availability" =>
          /\ ~Configured(last.service)
                => last.available /\ last.slots = <<"Anytime">>
          /\ (Configured(last.service) /\ (~Tracked(last.service) \/ Falsy(last.time)))
                => last.available /\ last.slots = AVAILABLE_SLOTS[last.service]
    /\ (last.op = "book_slot" /\ (~Tracked(last.service) \/ Falsy(last.time)))
          => /\ last.ok
             /\ Len(store) = Len(last.pre) + 1
             /\ SubSeq(store, 1, Len(last.pre)) = last.pre
             /\ store[Len(store)].service = last.service
             /\ store[Len(store)].date = last.date
             /\ store[Len(store)].time = last.time

C4_Witness ==
    /\ last.op = "book_slot"
    /\ last.ok
    /\ ~Tracked(last.service)
    /\ Occupied(last.pre, last.service, last.date, last.time)
    /\ Len(FindBookings(store, last.service, last.date, last.time)) >= 2

\* C5: find_next_available returns the first catalog entry, in declared order, that
\* differs from after_time and has no booking for (service, date, entry), with the
\* full catalog; it returns none iff the service has no catalog or every entry
\* other than after_time is booked on that date.
C5_FirstFree ==
    last.op = "find_next_available" =>
        IF ~Configured(last.service) THEN ~last.found
        ELSE LET free == FreePositions(store, last.service, last.date, last.time) IN
             /\ last.found <=> free # {}
             /\ last.found => /\ last.suggestion = AVAILABLE_SLOTS[last.service][MinOf(free)]
                              /\ last.slots = AVAILABLE_SLOTS[last.service]

C5_Witness ==
    /\ last.op = "find_next_available"
    /\ last.found
    /\ Truthy(last.time)
    /\ InSeq(AVAILABLE_SLOTS[last.service], last.time)
    /\ Occupied(store, last.service, last.date, last.time)
    /\ last.suggestion # last.time

\* C6: when after_time is a catalog entry and a slot is returned, the returned
\* slot's catalog position is greater than the position of after_time.
C6_AfterRequested ==
    (/\ last.op = "find_next_available"
     /\ last.found
     /\ InSeq(AVAILABLE_SLOTS[last.service], last.time))
        => IndexOf(AVAILABLE_SLOTS[last.service], last.suggestion)
              > IndexOf(AVAILABLE_SLOTS[last.service], last.time)

\* book_slot(service, date, time) would fail now with a conflict
C7_Conflict ==
    /\ last.op = "attempt_resolve"
    /\ Tracked(last.service)
    /\ Truthy(last.time)
    /\ Occupied(store, last.service, last.date, last.time)

\* C7 as claimed: whenever book_slot conflicts, attempt_resolve is unavailable with a
\* non-none suggestion that is a catalog entry of the service, differs from the
\* requested time and has no booking on that date.
C7_Original ==
    C7_Conflict =>
        /\ ~last.available
        /\ last.suggestion # NoneVal
        /\ InSeq(AVAILABLE_SLOTS[last.service], last.suggestion)
        /\ last.suggestion # last.time
        /\ ~Occupied(store, last.service, last.date, last.suggestion)

\* C7 amended: whenever book_slot conflicts, attempt_resolve is unavailable; its
\* suggestion is the first catalog entry that differs from the requested time and
\* has no booking on that date, and none when every other entry is booked.
C7_Amended ==
    C7_Conflict =>
        LET free == FreePositions(store, last.service, last.date, last.time) IN
        /\ ~last.available
        /\ last.suggestion = IF free = {} THEN NoneVal
                             ELSE AVAILABLE_SLOTS[last.service][MinOf(free)]

C7_Witness ==
    /\ C7_Conflict
    /\ ~last.available
    /\ last.suggestion = NoneVal

\* the result of find_next_available that auto_book_alternative acts on
C8_Next ==
    FindNextAvailable(last.pre, last.service, last.date,
                      IF Truthy(last.time) THEN last.time ELSE NoneVal)

\* C8: auto_book_alternative raises 'No alternative slots available' and leaves the
\* store unchanged when find_next_available finds nothing; otherwise it succeeds
\* (the inner book_slot raises no conflict) and appends exactly one booking, for
\* the slot find_next_available returned.
C8_AutoBook ==
    last.op = "auto_book_alternative" =>
        IF ~C8_Next.found
        THEN ~last.ok /\ last.err = ErrNoAlternative /\ store = last.pre
        ELSE /\ last.ok
             /\ last.err = NoErr
             /\ Len(store) = Len(last.pre) + 1
             /\ SubSeq(store, 1, Len(last.pre)) = last.pre
             /\ store[Len(store)] = last.booking
             /\ last.booking.service = last.service
             /\ last.booking.date = last.date
             /\ last.booking.time = C8_Next.time

C8_Witness ==
    /\ last.op = "auto_book_alternative"
    /\ last.ok
    /\ Tracked(last.service)
    /\ Truthy(last.time)
    /\ Occupied(last.pre, last.service, last.date, last.time)
    /\ last.booking.time # last.time
    /\ Len(store) = Len(last.pre) + 1

\* the records of the store that a finished book_slot call of process p added
Added(p) ==
    {i \in DOMAIN store : /\ store[i].id = procs[p].id
                          /\ store[i].service = procs[p].service
                          /\ store[i].date = procs[p].date
                          /\ store[i].time = procs[p].time}

\* C9: no step of book_slot stops the second writer: every call whose availability
\* query passed adds its record, whatever was added to the store after the query.
C9_CheckThenAct ==
    \A p \in Procs :
        (procs[p].pc = "done" /\ procs[p].ok) => Cardinality(Added(p)) = 1

\* both calls succeeded on one free slot of a tracked service
C9_Witness ==
    /\ \A p \in Procs : procs[p].pc = "done" /\ procs[p].ok
    /\ procs[1].service = procs[2].service
    /\ procs[1].date = procs[2].date
    /\ procs[1].time = procs[2].time
    /\ Tracked(procs[1].service)
    /\ Truthy(procs[1].time)
    /\ Len(store) = 2
    /\ Len(FindBookings(store, procs[1].service, procs[1].date, procs[1].time)) = 2

-----------------------------------------------------------------------------
(* Properties of the extraction engine *)

\* the turn holds an explicit date, an exact clock time and a known city name
FullTurn(t) ==
    LET f == Features(t) IN
    Truthy(f.date) /\ f.time.kind = "value" /\ f.cities # <<>>

HasFullTurn == \E i \in DOMAIN msgs : FullTurn(msgs[i])

\* the turn holds something the time detection reacts to: an exact time, digits with
\* am/pm that form no clock time, or a fuzzy time word
Timed(t) == Features(t).time.kind # "none" \/ Features(t).fuzzy[1] # ""

\* the first such turn of the conversation (0 when there is none)
FirstTimed ==
    LET timed == {i \in DOMAIN msgs : Timed(msgs[i])} IN
    IF timed = {} THEN 0 ELSE MinOf(timed)

SlotsSet ==
    /\ ~state.raised
    /\ Truthy(state.date) /\ Truthy(state.time) /\ Truthy(state.location)
    /\ state.confidences.date >= 90
    /\ state.confidences.location >= 90

\* C10 as stated: a conversation with a turn that holds a date, an exact time and a
\* known city yields date, time and location all set, each with confidence >= 0.9.
C10_Original == HasFullTurn => (SlotsSet /\ state.confidences.time >= 90)

\* C10 amended: in such a conversation the first turn the time detection reacts to
\* decides the outcome.  If it holds digits with am/pm that form no clock time the
\* call raises and returns no state; otherwise date, time and location are set with
\* confidence >= 0.9 for date and location, and the time's confidence is 0.95 when
\* that turn holds an exact time and 0.7 when it holds only a fuzzy time word.
C10_Amended ==
    HasFullTurn =>
        LET kind == Features(msgs[FirstTimed]).time.kind IN
        IF kind = "raise" THEN state.raised
        ELSE /\ SlotsSet
             /\ state.confidences.time = IF kind = "value" THEN 95 ELSE 70

\* a fuzzy time word, then a turn with date, exact time and city: the time keeps 0.7
C10_Witness ==
    /\ Len(msgs) = 2
    /\ ~FullTurn(msgs[1])
    /\ FullTurn(msgs[2])
    /\ SlotsSet
    /\ state.confidences.time = 70

\* the first turn the time detection reacts to holds a fuzzy word and no exact time
FuzzyFirst == FirstTimed # 0 /\ Features(msgs[FirstTimed]).time.kind = "none"

\* the fuzzy word of that turn
FuzzyWord == Features(msgs[FirstTimed]).fuzzy[1]

\* the mapping table as the specification prints it
CanonicalFuzzy ==
    [w \in {"morning", "afternoon", "evening", "night", "noon", "after lunch",
            "before lunch"} |->
        CASE w = "morning" -> "10:00 AM"
          [] w = "afternoon" -> "2:00 PM"
          [] w = "evening" -> "6:00 PM"
          [] w = "night" -> "8:00 PM"
          [] w = "noon" -> "12:00 PM"
          [] w = "after lunch" -> "2:00 PM"
          [] w = "before lunch" -> "11:30 AM"]

\* C11: when the time is first determined by a turn with a fuzzy time word and no
\* exact time, time is the table's value for that word, its confidence is 0.7 and the
\* word is an element of ambiguities.
C11_FuzzyResolved ==
    FuzzyFirst =>
        /\ state.time = CanonicalFuzzy[FuzzyWord]
        /\ state.confidences.time = 70
        /\ InSeq(state.ambiguities, FuzzyWord)

\* H:MM AM/PM with hour 1..12 and no leading zero, minute 00..59
IsCanonicalTime(t) ==
    \E w \in 1..2 :
        /\ Len(t) = w + 6
        /\ AllDigits(t, 1, w)
        /\ Ch(t, 1) # "0"
        /\ ToInt(Sub(t, 1, w)) \in 1..12
        /\ Ch(t, w + 1) = ":"
        /\ AllDigits(t, w + 2, 2)
        /\ ToInt(Sub(t, w + 2, w + 3)) \in 0..59
        /\ Ch(t, w + 4) = " "
        /\ Sub(t, w + 5, w + 6) \in {"AM", "PM"}

\* C12: in every returned state time is unset or a canonical time string, whichever
\* source set it (exact time, fuzzy word, next available slot, static fallback).
C12_CanonicalTime ==
    ~state.raised => (state.time = NoneVal \/ IsCanonicalTime(state.time))

\* the state the loop over the turns of msgs leaves, before the delegation defaults
LoopState == FoldTurns(InitState, [i \in DOMAIN msgs |-> Features(msgs[i])], 1)

SomeTurnDelegates == \E i \in DOMAIN msgs : Features(msgs[i]).delegation

\* C13: in the state returned for a conversation with a delegation phrase, delegated
\* is true and service, date, time and location are all set; service_auto_selected
\* is true exactly when the turns left service unset (it is then 'facial');
\* location_auto_selected is true exactly when the turns left location unset and
\* stashed no explicit location (it is then the first known city); a defaulted date
\* or time sets no flag; without a delegation phrase delegated and both flags are
\* false.
C13_DelegationDefaults ==
    ~state.raised =>
        IF SomeTurnDelegates
        THEN /\ state.delegated
             /\ Truthy(state.service) /\ Truthy(state.date)
             /\ Truthy(state.time) /\ Truthy(state.location)
             /\ state.service_auto_selected <=> Falsy(LoopState.service)
             /\ state.service_auto_selected => state.service = "facial"
             /\ state.location_auto_selected <=>
                    (Falsy(LoopState.location) /\ Falsy(LoopState.explicit_location))
             /\ state.location_auto_selected => state.location = CITIES[1]
        ELSE /\ ~state.delegated
             /\ ~state.service_auto_selected
             /\ ~state.location_auto_selected

\* delegation with nothing but a free-form place named: service, date and time are
\* defaulted, the location is the stashed one and carries no flag
C13_Witness ==
    /\ ~state.raised
    /\ SomeTurnDelegates
    /\ state.service_auto_selected
    /\ Falsy(LoopState.date) /\ Falsy(LoopState.time)
    /\ Truthy(LoopState.explicit_location)
    /\ state.location = LoopState.explicit_location
    /\ ~state.location_auto_selected

\* the state the loop leaves after the first k turns of msgs
LoopAfter(k) == FoldTurns(InitState, [i \in 1..k |-> Features(msgs[i])], 1)

SetOnceFields == {"date", "time", "location"}

\* C14: a date, time or location that the turns up to some turn set is the value the
\* state returned for the whole conversation has, with the same confidence: no
\* later turn and no delegation default changes or clears it.
C14_SetOnce ==
    ~state.raised =>
        \A k \in 0..Len(msgs) : \A fld \in SetOnceFields :
            Truthy(LoopAfter(k)[fld]) =>
                /\ state[fld] = LoopAfter(k)[fld]
                /\ state.confidences[fld] = LoopAfter(k).confidences[fld]

\* a fuzzy time from the first turn survives a second turn that holds a different
\* exact time
C14_Witness ==
    /\ Len(msgs) = 2
    /\ ~state.raised
    /\ LoopAfter(1).confidences.time = ConfFuzzyTime
    /\ Features(msgs[2]).time.kind = "value"
    /\ Features(msgs[2]).time.value # LoopAfter(1).time
    /\ state.time = LoopAfter(1).time
    /\ state.confidences.time = ConfFuzzyTime

\* the sub-type a turn's text maps 'appointment' to ("" when it names none)
SubType(f) == IF f.facial THEN "facial" ELSE IF f.dental THEN "dental" ELSE ""

\* C15: a service that a turn set is never cleared and never replaced by the
\* delegation default; a later turn changes it only from 'appointment' to 'facial'
\* or 'dental', with confidence 0.9, when that turn holds a sub-type keyword (so it
\* changes at most once); a turn that sets it sets the first keyword of SERVICES in
\* its text at 0.95, refined in the same turn when that keyword is 'appointment'.
C15_ServiceStable ==
    ~state.raised =>
        /\ \A k \in 1..Len(msgs) :
              LET a == LoopAfter(k - 1)
                  b == LoopAfter(k)
                  f == Features(msgs[k])
                  before == IF Truthy(a.service) THEN a.service
                            ELSE IF f.services # <<>> THEN f.services[1] ELSE NoneVal
              IN  IF before = "appointment" /\ SubType(f) # ""
                  THEN b.service = SubType(f) /\ b.confidences.service = 90
                  ELSE IF Truthy(a.service)
                  THEN /\ b.service = a.service
                       /\ b.confidences.service = a.confidences.service
                  ELSE /\ b.service = before
                       /\ b.confidences.service = IF Truthy(before) THEN 95 ELSE 0
        /\ Truthy(LoopState.service) =>
              /\ state.service = LoopState.service
              /\ state.confidences.service = LoopState.confidences.service
              /\ ~state.service_auto_selected

\* 'appointment' from the first turn, mapped to 'dental' by the second
C15_Witness ==
    /\ Len(msgs) = 2
    /\ ~state.raised
    /\ LoopAfter(1).service = "appointment"
    /\ LoopAfter(1).confidences.service = 95
    /\ state.service = "dental"
    /\ state.confidences.service = 90

\* C16: the state returned for a conversation does not depend on the Booking Store:
\* a call on the same conversation and the same 'today' against any other store,
\* one that differs by bookings created or cancelled in between, returns the same
\* state.
C16_StoreIndependent ==
    \A bookings \in ExtractStores : ExtractBookingState(msgs, bookings) = state

\* C17: extract never mutates the Booking Store: every call, delegated or not,
\* leaves the persisted bookings as they were before it.
C17_StoreUnchanged == [][store' = store]_vars

\* a delegated call has read a non-empty store: it skipped the booked slot and chose
\* the next one
C17_Witness ==
    /\ store # <<>>
    /\ ~state.raised
    /\ state.delegated
    /\ state.confidences.time = ConfNextSlot
    /\ Occupied(store, state.service, state.date, "10:00 AM")
    /\ state.time = "11:00 AM"

StartsWith(c, p) == Sub(c, 1, Len(p)) = p

\* the decision a clause reports, by its fixed opening words: 1..7 are the decisions
\* of a turn in the stated order, 11..14 the delegation defaults
ClauseRank(c) ==
    CASE StartsWith(c, "Location matched via pattern: ") -> 1
      [] StartsWith(c, "Explicit location mentioned: ") -> 1
      [] StartsWith(c, "User delegated ") -> 2
      [] StartsWith(c, "Service matched by keyword ") -> 3
      [] StartsWith(c, "Mapped generic 'appointment' ") -> 4
      [] StartsWith(c, "Date parsed as ") -> 5
      [] StartsWith(c, "Time normalized to ") -> 6
      [] StartsWith(c, "Fuzzy time ") -> 6
      [] StartsWith(c, "Location matched: ") -> 7
      [] StartsWith(c, "Defaulted service ") -> 11
      [] StartsWith(c, "Defaulted date ") -> 12
      [] StartsWith(c, "Auto-selected next available slot ") -> 13
      [] StartsWith(c, "Defaulted time ") -> 13
      [] StartsWith(c, "Used earlier mentioned location ") -> 14
      [] StartsWith(c, "Auto-selected location ") -> 14
      [] OTHER -> 0

\* whether the clause reports an assignment of the field
AssignsField(c, fld) ==
    ClauseRank(c) \in (CASE fld = "service" -> {3, 4, 11}
                         [] fld = "date" -> {5, 12}
                         [] fld = "time" -> {6, 13}
                         [] fld = "location" -> {1, 7, 14}) /\
    ~StartsWith(c, "Explicit location mentioned: ")

IsPrefix(a, b) == Len(a) <= Len(b) /\ SubSeq(b, 1, Len(a)) = a

\* the clauses of b after those of a
Segment(a, b) == SubSeq(b, Len(a) + 1, Len(b))

Increasing(cs, ranks) ==
    /\ \A i \in DOMAIN cs : ClauseRank(cs[i]) \in ranks
    /\ \A i, j \in DOMAIN cs : i < j => ClauseRank(cs[i]) < ClauseRank(cs[j])

CountAssign(cs, fld) == Cardinality({i \in DOMAIN cs : AssignsField(cs[i], fld)})

\* the assignments of the field that lead from loop state a to b through a turn with
\* features f: one when the value is set, one more when 'appointment' is refined
Assignments(a, b, f, fld) ==
    IF fld = "service"
    THEN (IF Falsy(a.service) /\ Truthy(b.service) THEN 1 ELSE 0)
         + (IF (   a.service = "appointment"
                \/ (Falsy(a.service) /\ f.services # <<>> /\ f.services[1] = "appointment"))
               /\ SubType(f) # ""
            THEN 1 ELSE 0)
    ELSE IF a[fld] # b[fld] THEN 1 ELSE 0

\* C18: the explanation joins the clauses in the order of the decisions: the clauses
\* of earlier turns come before those of later turns; within a turn the order is
\* location by pattern or stashed location, delegation, service match, refinement,
\* date, time, location by keyword; the default clauses follow all turn clauses in
\* the order service, date, time, location; every assignment of service, date, time
\* or location contributes exactly one clause.
C18_ExplanationOrder ==
    ~state.raised =>
        /\ state.explanation = JoinClauses(state.explanations)
        /\ \A k \in 1..Len(msgs) :
              LET a == LoopAfter(k - 1)
                  b == LoopAfter(k)
                  seg == Segment(a.explanations, b.explanations)
              IN  /\ IsPrefix(a.explanations, b.explanations)
                  /\ Increasing(seg, 1..7)
                  /\ \A fld \in SlotFields :
                        CountAssign(seg, fld) = Assignments(a, b, Features(msgs[k]), fld)
        /\ LET post == Segment(LoopState.explanations, state.explanations) IN
              /\ IsPrefix(LoopState.explanations, state.explanations)
              /\ Increasing(post, 11..14)
              /\ \A fld \in SlotFields :
                    CountAssign(post, fld) = IF state[fld] # LoopState[fld] THEN 1 ELSE 0

\* two turns that both produce clauses, the first at least five of them, followed by
\* default clauses
C18_Witness ==
    /\ Len(msgs) = 2
    /\ ~state.raised
    /\ Len(LoopAfter(1).explanations) >= 5
    /\ Len(LoopState.explanations) > Len(LoopAfter(1).explanations)
    /\ Len(state.explanations) > Len(LoopState.explanations)

-----------------------------------------------------------------------------
(* Properties of the explainability score and the clarifier *)

\* 100 * clamp[0,1](avg * (1 - min(0.15 a, 0.45) - min(0.10 m, 0.30))) for confidences
\* c (in hundredths), a ambiguities and m missing fields, scaled by 400 so that it is
\* an integer: a score of 16.625 is 6650
FormulaTimes400(c, a, m) ==
    LET sum == c.service + c.date + c.time + c.location
        pa == IF 15 * a < 45 THEN 15 * a ELSE 45
        pm == IF 10 * m < 30 THEN 10 * m ELSE 30
        raw == sum * (100 - pa - pm)
    IN  IF raw < 0 THEN 0 ELSE IF raw > 40000 THEN 40000 ELSE raw

MissingCount(st) == Cardinality({k \in SlotFields : Falsy(st[k])})

\* ambiguities added to a state in the monotonicity checks
MaxAdded == 4

ExtraAmbiguities == {[i \in 1..n |-> "later"] : n \in 1..MaxAdded}

\* the state with more ambiguities, or with set fields cleared
Worse(st) ==
    {[st EXCEPT !.ambiguities = @ \o x] : x \in ExtraAmbiguities}
    \cup {[k \in DOMAIN st |-> IF k \in gone THEN NoneVal ELSE st[k]] :
              gone \in (SUBSET {f \in SlotFields : Truthy(st[f])}) \ {{}}}

\* the score of every worse state is no higher; two scores whose exact values are
\* equal are the same number rounded
NeverIncreases ==
    \A w \in Worse(state) :
        /\ ScoreTimes400(w) <= ScoreTimes400(state)
        /\ ScoreTimes400(w) < ScoreTimes400(state) =>
              \A b \in ComputeExplainabilityScore(w) : b.score <= expl.score

Scored == Len(msgs) >= 1 /\ ~state.raised

\* C19 as stated: the score of a returned state equals the formula, lies in [0, 100]
\* and never increases when an ambiguity is added or a field becomes missing.
C19_Original ==
    Scored =>
        /\ expl.score * 4 =
              FormulaTimes400(state.confidences, Len(state.ambiguities),
                              MissingCount(state))
        /\ expl.score \in 0..10000
        /\ NeverIncreases

\* C19 amended: the score is the formula's value rounded to two decimals (at most
\* 0.005 away from it), lies in [0, 100] and never increases when an ambiguity is
\* added or a field becomes missing.
C19_Amended ==
    Scored =>
        LET exact == FormulaTimes400(state.confidences, Len(state.ambiguities),
                                     MissingCount(state))
        IN  /\ expl.score * 4 - exact \in -2..2
            /\ expl.score \in 0..10000
            /\ NeverIncreases

\* a returned state with missing fields whose exact score has more than two decimals
C19_Witness ==
    /\ Scored
    /\ MissingCount(state) >= 1
    /\ ScoreTimes400(state) % 4 # 0
    /\ expl.score > 0

\* the first of the slot fields, in the order service, date, time, location, that
\* lies in the non-empty set fs
FirstField(fs) == SlotOrder[MinOf({i \in DOMAIN SlotOrder : SlotOrder[i] \in fs})]

LowSet(st) == {k \in SlotFields : st.confidences[k] < 70}

UnsetSet(st) == {k \in SlotFields : Falsy(st[k])}

\* C20: the clarifier asks about the first ambiguity whenever there is one; else the
\* low-confidence question of the first field, in the order service, date, time,
\* location, whose confidence is below 0.7; else the missing-field question of the
\* first unset field in that order; and it returns none exactly when there is no
\* ambiguity, no confidence below 0.7 and no unset field.
C20_Priority ==
    question # Pending =>
        /\ IF state.ambiguities # <<>>
           THEN /\ question # NoneVal
                /\ Contains(question, "'" \o state.ambiguities[1] \o "'")
           ELSE IF LowSet(state) # {}
           THEN question = LowConfidenceQuestion[FirstField(LowSet(state))]
           ELSE IF UnsetSet(state) # {}
           THEN question = MissingQuestion[FirstField(UnsetSet(state))]
           ELSE question = NoneVal
        /\ question = NoneVal <=>
              (state.ambiguities = <<>> /\ LowSet(state) = {} /\ UnsetSet(state) = {})

\* no ambiguity, a low confidence on one field and an earlier field unset: the
\* low-confidence question wins
C20_Witness ==
    /\ question # Pending
    /\ state.ambiguities = <<>>
    /\ LowSet(state) = {"time"}
    /\ UnsetSet(state) = {"service"}
    /\ question = LowConfidenceQuestion["time"]

-----------------------------------------------------------------------------
(* Properties of pricing *)

Priced == call.fn = "calculate_price"

Gold(meta) == meta.is_dict /\ meta.loyalty_tier = "gold"

\* the step function of the confidence (in hundredths of a percent)
StepOf(c) ==
    CASE c >= 9000 -> 15
      [] c >= 7500 /\ c < 9000 -> 10
      [] c >= 5000 /\ c < 7500 -> 5
      [] c < 5000 -> 0

\* the amount in cents that `price` dollars less `discount` percent come to, in the
\* currency of the call
AmountsOf(price, discount) ==
    IF call.currency = "INR" THEN RoundedAmounts(price * (100 - discount) * call.rate)
    ELSE {price * (100 - discount)}

\* C21: the discount calculate_price returns is the step function of the confidence
\* (15 from 90, 10 from 75, 5 from 50, 0 below) plus 5 for the gold loyalty tier; it
\* is one of 0, 5, 10, 15, 20; no call with the same arguments and a higher
\* confidence returns a smaller discount; the final amount is never negative, and a
\* service without a listed price is priced from the default base of 50
C21_DiscountTiers ==
    Priced =>
        /\ call.discount = StepOf(call.confidence_pct)
                           + (IF Gold(call.meta) THEN 5 ELSE 0)
        /\ call.discount \in {0, 5, 10, 15, 20}
        /\ \A c \in PriceConfidences :
              c >= call.confidence_pct =>
                  \A r \in CalculatePrice(call.service, c, call.meta, call.location,
                                          call.cache, call.api_key, call.fetched) :
                      r.discount >= call.discount
        /\ call.final >= 0
        /\ call.service \notin DOMAIN BASE_PRICES =>
              call.final \in AmountsOf(50, call.discount)

\* an unlisted service priced at exactly 90 percent confidence for a gold customer:
\* the largest discount, 20
C21_Witness ==
    /\ Priced
    /\ call.service = "massage"
    /\ call.confidence_pct = 9000
    /\ Gold(call.meta)
    /\ call.discount = 20
    /\ call.final = 50 * 80

\* meta names a currency
ExplicitCurrency(meta) == meta.is_dict /\ meta.currency \notin {NoneVal, ""}

\* the location is one of the listed Indian cities, in any letter case
IndianCity(location) ==
    location # NoneVal /\ \E c \in INDIAN_CITIES : Lower(location) = c

\* C22: calculate_price picks the currency by priority: the upper-cased
\* meta.currency when meta names one, even for an Indian city; otherwise INR for a
\* location in the Indian-city list, compared without regard to case; otherwise
\* USD. A rate is applied exactly when that currency is INR, to the discounted
\* amount in whole cents; with the demo rate, ('facial', 76, None, 'vijayawada')
\* gives (1992.60, 10, 'INR')
C22_CurrencyPriority ==
    Priced =>
        LET usd == BasePrice(call.service) * (100 - call.discount) IN
        /\ ExplicitCurrency(call.meta) => call.currency = Upper(call.meta.currency)
        /\ ~ExplicitCurrency(call.meta) /\ IndianCity(call.location) =>
              call.currency = "INR"
        /\ ~ExplicitCurrency(call.meta) /\ ~IndianCity(call.location) =>
              call.currency = "USD"
        /\ (call.currency = "INR") <=> (call.rate # NoRate)
        /\ call.currency = "INR" => call.final \in RoundedAmounts(usd * call.rate)
        /\ call.currency # "INR" => call.final = usd
        /\ (/\ call.service = "facial"
            /\ call.confidence_pct = 7600
            /\ call.meta = NoMeta
            /\ call.location = "vijayawada"
            /\ call.rate = 8200) =>
              /\ call.final = 199260
              /\ call.discount = 10
              /\ call.currency = "INR"

\* a booking in Vijayawada whose meta asks for dollars is priced in USD, unconverted
C22_Witness ==
    /\ Priced
    /\ call.location = "vijayawada"
    /\ call.meta = Meta("gold", "usd")
    /\ call.currency = "USD"
    /\ call.rate = NoRate
    /\ call.final = 27 * 85

-----------------------------------------------------------------------------
(* Properties of the parsers *)

Parsed(fn) == call # NoCall /\ call.fn = fn

\* C23: no parser throws: normalize_time returns a canonical time or None for every
\* text, also when the digits before am/pm form no clock time; _parse_date returns
\* a date or None; and extract_booking_state returns a state for every conversation
C23_ParsersNeverThrow ==
    call # NoCall =>
        /\ call.kind # "raise"
        /\ Parsed("normalize_time") /\ call.kind = "value" => IsCanonicalTime(call.value)
        /\ Parsed("normalize_time") /\ call.kind = "none" => call.value = NoneVal

\* hour h of the 12-hour clock and minute m, as normalize_time writes them
Canonical(h, m, period) == ToString(h) \o ":" \o Pad2(m) \o " " \o Upper(period)

\* the 12-hour reading of an hour of the 24-hour clock
Hour12(h) == IF h % 12 = 0 THEN 12 ELSE h % 12
Meridiem(h) == IF h < 12 THEN "am" ELSE "pm"

\* C24: normalize_time maps a clock time to its 12-hour canonical form: for h in
\* 1..12 and m in 0..59 a text 'h:mm' followed by am or pm gives hour h, minute m
\* and the same meridiem (12 am is 12:MM AM, 12 pm is 12:MM PM); without minutes
\* it gives :00; a bare 'HH:MM' with HH in 0..23 gives what the equivalent 12-hour
\* text gives; the hour of every result is in 1..12 and has no leading zero
C24_ClockConsistency ==
    Parsed("normalize_time") =>
        LET c == call.input IN
        /\ c.form \in {"12h", "12h-oclock"} =>
              /\ call.kind = "value"
              /\ call.value = Canonical(c.hour, c.minute, c.period)
        /\ c.form = "24h" =>
              /\ call.kind = "value"
              /\ call.value = Canonical(Hour12(c.hour), c.minute, Meridiem(c.hour))
              /\ call.value =
                    NormalizeTime(ClockText([form |-> "12h", hour |-> Hour12(c.hour),
                                             minute |-> c.minute,
                                             period |-> Meridiem(c.hour),
                                             sep |-> " ", pad |-> FALSE])).value
        /\ call.kind = "value" => IsCanonicalTime(call.value)

\* five past midnight, written on the 24-hour clock with a padded hour
C24_Witness ==
    /\ Parsed("normalize_time")
    /\ call.text = "00:05"
    /\ call.value = "12:05 AM"

-----------------------------------------------------------------------------
(* Properties of the application flow *)

\* the turn of the session under watch made a booking
Booked == call.fn = "turn" /\ call.booked

\* the step is a step of the run in progress in the session under watch
Continued == ~Idle /\ call' # call

\* the rate service gives no rate in this environment
NoLiveRate(env) == env.api_key = NoneVal \/ env.fetched \in {FetchFailed, NoRate}

\* C25: once book_slot has persisted a booking during a turn (the insert adds exactly
\* the row it returns), no failure of a later optional step (rate fetch, language
\* detection, translation, PDF receipt, voice confirmation) leaves the turn as an
\* error or touches the store: every later step of the turn leaves the store as it
\* is and the turn ends with the summary and the text receipt; a failed translation
\* gives the untranslated summary, a failed detection gives no language (so
\* English), and a failed rate fetch gives the rate 82.00
C25_EnrichmentNeverAborts ==
    [][/\ (Continued /\ call.pc = "insert") =>
              /\ call'.booked
              /\ call'.pc = "price"
              /\ call'.booking = NewBooking(nextId', state.service, state.date,
                                            call.time, call.location, EmptyMeta)
              /\ store' = Append(store, call'.booking)
       /\ (Continued /\ call.booked) =>
              /\ store' = store
              /\ call'.booked
              /\ call'.booking = call.booking
              /\ ~call'.escaped
              /\ call'.pc \in {"fetch", "translate", "voice", "done"}
              /\ call.pc = "fetch" =>
                    /\ call'.pc = "translate"
                    /\ NoLiveRate(call.env) =>
                          call'.price.rate = 8200 /\ fxCache' = 8200
              /\ call'.pc = "done" =>
                    /\ call'.post.ran
                    /\ ~call'.post.error
                    /\ call'.post.text_receipt
                    /\ call'.post.summary # ""
                    /\ call'.post.rate = call.price.rate
                    /\ call.env.translate \in Failures =>
                          call'.post.summary = "Booking ID: " \o ToString(call.booking.id)
                    /\ call.env.detect \in Failures =>
                          call'.user_lang = NoneVal /\ call'.target_lang = "en"
                    /\ call.env.tts = "raise" => ~call'.post.voice]_vars

\* a booking in Bangalore made while every optional step fails: it is stored,
\* priced in rupees at the demo rate, summarised in English, with a text receipt
C25_Witness ==
    /\ Booked
    /\ call.pc = "done"
    /\ call.env = Env("raise", "key", FetchFailed, "raise", "raise", "raise", "raise")
    /\ store = <<call.booking>>
    /\ call.booking.location = "bangalore"
    /\ call.price.requested
    /\ call.post.currency = "INR"
    /\ call.post.rate = 8200
    /\ call.post.pdf = "none"
    /\ call.post.warning
    /\ call.post.text_receipt
    /\ call.post.summary = "Booking ID: 1"

-----------------------------------------------------------------------------
(* Properties of modify_booking *)

\* what C26 says of the last modify_booking call; scoped tells whether an occupied
\* target is said to raise only for a tracked service and a target time that is set
C26_Body(scoped) ==
    last.op = "modify_booking" =>
        LET pre == last.pre IN
        IF \A i \in DOMAIN pre : pre[i].id # last.id
        THEN ~last.found /\ store = pre
        ELSE LET i == CHOOSE k \in DOMAIN pre : pre[k].id = last.id
                 b == pre[i]
                 date == IF Truthy(last.date) THEN last.date ELSE b.date
                 time == IF Truthy(last.time) THEN last.time ELSE b.time
                 raises == /\ Occupied(pre, b.service, date, time)
                           /\ scoped => Tracked(b.service) /\ Truthy(time)
             IN  /\ last.found
                 /\ raises <=> ~last.ok
                 /\ ~last.ok => last.err = ErrModifyConflict /\ store = pre
                 /\ last.ok =>
                       /\ Len(store) = Len(pre)
                       /\ \A j \in DOMAIN pre : j # i => store[j] = pre[j]
                       /\ store[i].id = b.id
                       /\ store[i].service = b.service
                       /\ store[i].location = b.location
                       /\ store[i].created_at = b.created_at
                       /\ store[i].meta = b.meta
                       /\ store[i].date = date
                       /\ store[i].time = time

\* C26 as claimed: a successful modify_booking changes only the date and time of the
\* booking with that id and leaves its id, service, location, created_at and meta
\* and every other booking as they were; when the target (service, date, time) is
\* occupied it raises and the store is unchanged; for an unknown id it returns None
\* and the store is unchanged.
C26_Original == C26_Body(FALSE)

\* C26 amended: the same, where an occupied target raises when the service is
\* tracked (configured, no 'Anytime' entry) and the target time is set; for any
\* other service, and for a target without a time, an occupied target does not
\* raise and the booking is moved onto it.
C26_Amended == C26_Body(TRUE)

\* a booking was moved to another slot while a second booking stayed as it was
C26_Witness ==
    /\ last.op = "modify_booking"
    /\ last.found
    /\ last.ok
    /\ Len(store) = 2
    /\ store # last.pre
    /\ \E i \in DOMAIN store : store[i].id = last.id /\ Tracked(store[i].service)

-----------------------------------------------------------------------------
(* Properties of intent detection *)

\* the intent a turn asks for: cancel when it holds a cancellation keyword, else
\* modify when it holds a modification keyword, else none ("")
TurnIntent(content) ==
    LET text == Lower(content) IN
    IF \E w \in {"cancel", "cancelled", "delete"} : Contains(text, w) THEN "cancel"
    ELSE IF \E w \in {"change", "modify", "reschedule"} : Contains(text, w) THEN "modify"
    ELSE ""

\* the turns of the conversation that hold an intent keyword
IntentTurns == {i \in DOMAIN msgs : TurnIntent(msgs[i]) # ""}

\* C27: in a returned state the intent is 'book' when no turn holds an intent
\* keyword, and otherwise the intent of the last turn that holds one, a turn with a
\* cancellation keyword counting as 'cancel' even when it also holds a modification
\* keyword; so once a turn has set cancel or modify the intent is never 'book' again
C27_IntentLastWins ==
    ~state.raised =>
        /\ IntentTurns = {} => state.intent = "book"
        /\ IntentTurns # {} => state.intent = TurnIntent(msgs[MaxOf(IntentTurns)])
        /\ IntentTurns # {} => state.intent \in {"cancel", "modify"}

\* a request to reschedule followed by a turn that holds both 'cancel' and 'change'
C27_Witness ==
    /\ ~state.raised
    /\ Len(msgs) = 2
    /\ TurnIntent(msgs[1]) = "modify"
    /\ Contains(msgs[2], "cancel")
    /\ Contains(msgs[2], "change")
    /\ state.intent = "cancel"

\* an explanation clause that speaks of the intent
IntentClause(clause) ==
    LET c == Lower(clause) IN
    \E w \in {"intent", "cancel", "modify", "modif", "reschedul", "chang", "delet"} :
        Contains(c, w)

\* C28: every turn that sets or overrides the intent appends a clause to the
\* explanation, so the returned state shows each intent change: it holds at least as
\* many clauses about the intent as the conversation has turns with an intent keyword
C28_IntentTracked ==
    ~state.raised =>
        Cardinality({i \in DOMAIN state.explanations :
                        IntentClause(state.explanations[i])})
            >= Cardinality(IntentTurns)

-----------------------------------------------------------------------------
(* Properties of the delegated time default *)

\* the catalog of the service, empty when the service has none
CatalogOf(service) == IF Configured(service) THEN AVAILABLE_SLOTS[service] ELSE <<>>

\* the positions of the catalog entries of the service without a booking on the date
UnbookedPositions(service, date) ==
    {i \in DOMAIN CatalogOf(service) : ~Occupied(store, service, date, CatalogOf(service)[i])}

\* the delegated conversation whose turns set no time
DelegatedWithoutTime == ~state.raised /\ state.delegated /\ Falsy(LoopState.time)

\* C29: when delegated is true and no turn set the time, the time of the returned
\* state is the first entry of the catalog of the returned (defaulted) service, in
\* declared order, that has no booking on the returned (defaulted) date, with
\* confidence 0.75; when the service has no catalog or every entry is booked the time
\* is '10:00 AM' with confidence 0.6
C29_DelegatedTime ==
    DelegatedWithoutTime =>
        LET free == UnbookedPositions(state.service, state.date) IN
        IF free # {}
        THEN /\ state.time =
                    CatalogOf(state.service)[CHOOSE i \in free : \A j \in free : i <= j]
             /\ state.confidences.time = ConfNextSlot
        ELSE /\ state.time = DefaultTime
             /\ state.confidences.time = ConfDefaultTime

\* the service was defaulted to 'facial', whose first slot of the defaulted date is
\* booked: the second catalog entry is chosen
C29_Witness ==
    /\ DelegatedWithoutTime
    /\ state.service_auto_selected
    /\ Falsy(LoopState.date)
    /\ Occupied(store, state.service, state.date, CatalogOf(state.service)[1])
    /\ state.time = CatalogOf(state.service)[2]
    /\ state.confidences.time = ConfNextSlot

\* the loop returned, a turn delegated and no turn set the time: the post-pass runs
\* its time default, which queries the store when the defaulted service has a catalog
LookupAttempted ==
    /\ ~LoopState.raised
    /\ SomeTurnDelegates
    /\ Falsy(LoopState.time)
    /\ Configured(DefaultServiceStep(LoopState).service)

\* C30: a failing availability lookup never propagates out of extract: when the
\* store query of find_next_available fails during the delegated time default,
\* extract still returns a state, with time '10:00 AM' at confidence 0.6, and the
\* location default is still applied afterwards (a location is set: the one of the
\* turns, else the stashed free-form place, else the first city with the flag)
C30_LookupFailureContained ==
    LookupAttempted =>
        /\ ~state.raised
        /\ state.delegated
        /\ state.time = DefaultTime
        /\ state.confidences.time = ConfDefaultTime
        /\ state.location = IF Truthy(LoopState.location) THEN LoopState.location
                            ELSE IF Truthy(LoopState.explicit_location)
                            THEN LoopState.explicit_location
                            ELSE CITIES[1]
        /\ state.location_auto_selected <=>
               (Falsy(LoopState.location) /\ Falsy(LoopState.explicit_location))

\* the lookup failed against a store with a free slot, and the location was defaulted
\* after the failure
C30_Witness ==
    /\ LookupAttempted
    /\ UnbookedPositions(state.service, state.date) # {}
    /\ InSeq(state.explanations,
             "Defaulted time to 10:00 AM due to delegation (slot lookup failed)")
    /\ state.time = DefaultTime
    /\ state.location_auto_selected
    /\ state.location = CITIES[1]

-----------------------------------------------------------------------------
(* Properties of the delegated location default *)

\* the turns that have an 'in <words>' phrase which is no known city: they stash
\* the phrase
StashTurns ==
    {i \in DOMAIN msgs : /\ Features(msgs[i]).m_loc
                         /\ Features(msgs[i]).candidate # ""
                         /\ ~InSeq(CITIES, Features(msgs[i]).candidate)}

\* the phrase stashed by the latest such turn
LatestStash == Features(msgs[CHOOSE i \in StashTurns : \A j \in StashTurns : j <= i]).candidate

NoKnownCity == \A i \in DOMAIN msgs : Features(msgs[i]).cities = <<>>

\* C31: when delegated is true and no turn contains a known city, location is the
\* free-form phrase stashed by the latest turn that had one, with confidence 0.8
\* and location_auto_selected false; when no turn stashed a phrase it is the first
\* known city 'bangalore' with confidence 0.5 and location_auto_selected true.
\* When delegated is false the location is unset or a known city: a stashed phrase
\* is never committed
C31_DelegatedLocation ==
    ~state.raised =>
        /\ (state.delegated /\ NoKnownCity) =>
               IF StashTurns # {}
               THEN /\ state.location = LatestStash
                    /\ state.confidences.location = ConfStashedLocation
                    /\ ~state.location_auto_selected
               ELSE /\ state.location = "bangalore"
                    /\ state.confidences.location = ConfDefaultLocation
                    /\ state.location_auto_selected
        /\ ~state.delegated =>
               /\ Falsy(state.location) \/ InSeq(CITIES, state.location)
               /\ \A i \in StashTurns : state.location # Features(msgs[i]).candidate

-----------------------------------------------------------------------------
(* Properties of the clarification of fuzzy times *)

\* C32: for every state returned by extract whose time was resolved from a fuzzy
\* word, generate_clarifying_question applied to that state returns the
\* disambiguation question about that fuzzy word, not none and not a question about
\* another field
C32_FuzzyClarifiable ==
    (~state.raised /\ FuzzyFirst) =>
        GenerateClarifyingQuestion(state) = AmbiguityQuestion(FuzzyWord)

-----------------------------------------------------------------------------
(* Properties of the exchange rate cache *)

\* the rate the first rupee computation settles on, given the environment it met
FirstRate(api_key, fetched) ==
    IF Truthy(api_key) /\ fetched # FetchFailed /\ fetched # NoRate
    THEN fetched ELSE DemoRate

\* C33: the exchange rate is fixed once per process.  The first rupee computation
\* determines the rate (the live rate when a key is configured and the fetch gives
\* one, else 82.0) and stores it in the cache; every later call uses that rate, the
\* cache entry is never overwritten, and the rate service is called at most once per
\* process: only by a call that finds the cache empty and leaves it filled.  Stated
\* on every step: a filled cache keeps its rate, and a call that returns has used the
\* rate the cache held before it, or, the cache being empty, the one it settled on
C33_RateFixedOnce ==
    [][/\ fxCache # NoRate => fxCache' = fxCache
       /\ call' # call =>
              /\ call'.currency = "INR" =>
                     /\ fxCache' # NoRate
                     /\ call'.rate = fxCache'
                     /\ fxCache # NoRate => call'.rate = fxCache
                     /\ fxCache = NoRate =>
                            fxCache' = FirstRate(call'.api_key, call'.fetched)
              /\ call'.currency # "INR" => fxCache' = fxCache /\ ~call'.requested
              /\ call'.requested => fxCache = NoRate /\ fxCache' # NoRate]_vars

-----------------------------------------------------------------------------
(* Properties of the store kept by one process *)

\* two persisted bookings with the same (service, date, time)
SameSlot(a, b) == a.service = b.service /\ a.date = b.date /\ a.time = b.time

\* C34: starting from an empty store, after any sequence of book_slot,
\* auto_book_alternative, modify_booking, cancel_booking and reset_bookings calls of
\* one process, no two persisted bookings share the same (service, date, time) for
\* a service whose catalog is configured and has no 'Anytime' entry, provided the
\* time is non-empty
C34_NoDoubleBooking ==
    \A i, j \in DOMAIN store :
        (i # j /\ Tracked(store[i].service) /\ Truthy(store[i].time))
            => ~SameSlot(store[i], store[j])

\* two bookings of a tracked service on one date, and a modify_booking that tried to
\* move one onto the other's slot and was refused
C34_Witness ==
    /\ Len(store) = 2
    /\ Tracked(store[1].service)
    /\ store[1].service = store[2].service
    /\ store[1].date = store[2].date
    /\ Truthy(store[1].time) /\ Truthy(store[2].time)
    /\ store[1].time # store[2].time
    /\ last.op = "modify_booking"
    /\ last.found /\ ~last.ok
    /\ \E i \in DOMAIN store : store[i].id # last.id /\ store[i].time = last.time
                               /\ store[i].date = OrElse(last.date, store[i].date)

-----------------------------------------------------------------------------
(* Properties of the confidences *)

\* the confidences of values the post-pass chose
DefaultConfidences ==
    {ConfDefaultService, ConfDefaultDate, ConfNextSlot, ConfDefaultTime,
     ConfStashedLocation, ConfDefaultLocation}

\* C35: in every state returned by extract a slot field is unset iff its confidence
\* is 0; confidences[service] is 0.95, 0.9 or 0.6; confidences[date] is 0.9 or 0.6;
\* confidences[time] is 0.95, 0.7, 0.75 or 0.6; confidences[location] is 0.9, 0.8 or
\* 0.5; and the default values 0.6, 0.75, 0.8 and 0.5 occur only when delegated is
\* true
C35_ConfidenceSources ==
    ~state.raised =>
        /\ \A f \in SlotFields : Falsy(state[f]) <=> state.confidences[f] = 0
        /\ state.confidences.service \in {0, ConfService, ConfRefined, ConfDefaultService}
        /\ state.confidences.date \in {0, ConfDate, ConfDefaultDate}
        /\ state.confidences.time \in
               {0, ConfExactTime, ConfFuzzyTime, ConfNextSlot, ConfDefaultTime}
        /\ state.confidences.location \in
               {0, ConfLocation, ConfStashedLocation, ConfDefaultLocation}
        /\ (\E f \in SlotFields : state.confidences[f] \in DefaultConfidences)
               => state.delegated

\* a delegated state that carries a keyword service, a defaulted date, a slot chosen
\* from the catalog and a stashed location
C35_Witness ==
    /\ ~state.raised
    /\ state.delegated
    /\ state.confidences.service = ConfService
    /\ state.confidences.date = ConfDefaultDate
    /\ state.confidences.time = ConfNextSlot
    /\ state.confidences.location = ConfStashedLocation

-----------------------------------------------------------------------------
(* Properties of the per-turn application flow *)

\* app.py line 158-159: some confidence is non-zero and below 0.7, and the state is
\* not delegated
ClarifyGuard ==
    /\ \E k \in SlotFields : state.confidences[k] # 0 /\ state.confidences[k] < LowThreshold
    /\ ~state.delegated

\* the questions generate_clarifying_question can return
ClarifyingQuestions ==
    {LowConfidenceQuestion[f] : f \in SlotFields} \cup {MissingQuestion[f] : f \in SlotFields}
        \cup {AmbiguityQuestion(w) : w \in DOMAIN ClarifyRanges}

\* C36: in the per-turn flow the guard of the clarification prompt is false for
\* every conversation, so the flow never shows a clarifying question and never
\* appends one to the conversation
C36_NeverClarifies ==
    /\ ~state.raised => ~ClarifyGuard
    /\ question = NoneVal
    /\ call.fn = "turn" => call.branch # "clarify"
    /\ \A i \in DOMAIN msgs : msgs[i] \notin ClarifyingQuestions

\* a turn that is not delegated left the time at the fuzzy confidence 0.7, the
\* lowest a turn can set: nothing was asked, the flow went on to the language model
C36_Witness ==
    /\ call.fn = "turn"
    /\ ~state.raised
    /\ ~state.delegated
    /\ state.confidences.time = ConfFuzzyTime
    /\ call.branch = "continue"
    /\ call.pc = "done"
    /\ ~call.escaped
    /\ msgs[Len(msgs)] \in AssistantReplies

\* C37: a turn whose extracted intent is 'modify' or 'cancel' never adds a booking to
\* the store; a booking is added only when the intent is 'book' and all four slot
\* fields are set, and at most one booking is added per turn
C37_OnlyBookIntentBooks ==
    [][(Continued /\ store' # store) =>
           /\ state.intent \notin {"modify", "cancel"}
           /\ state.intent = "book" /\ Missing(state) = {}
           /\ ~call.booked /\ Len(store') = Len(store) + 1]_vars

-----------------------------------------------------------------------------
(* Properties of service detection *)

\* the service keywords a text names: those it contains that are not part of a
\* longer keyword it contains ('spa' inside 'head spa' is no mention of 'spa')
NamedServices(content) ==
    LET found == Features(content).services IN
    {found[i] : i \in {j \in DOMAIN found :
                          \A l \in DOMAIN found :
                              l # j => ~Contains(found[l], found[j])}}

\* the turns that mention a service: a keyword of the list, or a word that refines
\* 'appointment'
ServiceTurns ==
    {i \in DOMAIN msgs : \/ Features(msgs[i]).services # <<>>
                         \/ Features(msgs[i]).facial
                         \/ Features(msgs[i]).dental}

\* C38: every service keyword of the fixed list is extractable: a conversation whose
\* only service mention is a turn containing the keyword k yields service = k; in
\* particular 'head spa' is not shadowed by the 'spa' it contains
C38_KeywordsExtractable ==
    \A k \in {SERVICES[i] : i \in DOMAIN SERVICES} :
        (/\ ~state.raised
         /\ \E i \in DOMAIN msgs : /\ ServiceTurns = {i}
                                   /\ NamedServices(msgs[i]) = {k}
                                   /\ ~Features(msgs[i]).facial
                                   /\ ~Features(msgs[i]).dental)
            => state.service = k

-----------------------------------------------------------------------------
(* Properties of the booked times *)

\* book_slot and auto_book_alternative pass no meta, so add_booking writes '{}'; the
\* demo bookings of seed_demo_bookings carry a meta
ThroughBookSlot(b) == b.meta = EmptyMeta

\* C39: every booking persisted through book_slot or auto_book_alternative for a
\* service with a configured catalog has a time that is an entry of that service's
\* catalog; in particular a state produced by extract and then reserved with
\* book_slot only ever occupies a catalog slot
C39_CatalogTimesOnly ==
    \A i \in DOMAIN store :
        (ThroughBookSlot(store[i]) /\ Configured(store[i].service))
            => InSeq(AVAILABLE_SLOTS[store[i].service], store[i].time)

-----------------------------------------------------------------------------
(* Properties of modify_booking called on the booking's own slot *)

\* the booking the last modify_booking call named, as it was before the call
Modified == last.pre[CHOOSE k \in DOMAIN last.pre : last.pre[k].id = last.id]

\* modify_booking was called on an existing booking of a configured non-Anytime
\* service with the booking's current date and time, or with both omitted
OwnSlotCall ==
    /\ last.op = "modify_booking"
    /\ \E k \in DOMAIN last.pre : last.pre[k].id = last.id
    /\ Tracked(Modified.service)
    /\ \/ last.date = Modified.date /\ last.time = Modified.time
       \/ Falsy(last.date) /\ Falsy(last.time)

\* the call raised 'Requested new time is not available' and changed nothing
RaisedUnchanged == ~last.ok /\ last.err = ErrModifyConflict /\ store = last.pre

\* C40 as claimed: for an existing booking of a configured non-Anytime service,
\* modify_booking called with new date and time equal to the booking's current
\* ones, or with both omitted, raises 'Requested new time is not available' and
\* leaves the store unchanged
C40_Original == OwnSlotCall => RaisedUnchanged

\* C40 amended: the same for a booking whose time is set; a booking without a time
\* occupies no slot, the call does not raise and the booking stays as it was
C40_Amended ==
    OwnSlotCall =>
        IF Truthy(Modified.time) THEN RaisedUnchanged
        ELSE last.ok /\ store = last.pre

\* the only booking of the store was modified with date and time omitted: the call
\* conflicted with the booking itself
C40_Witness ==
    /\ OwnSlotCall
    /\ Len(last.pre) = 1
    /\ Truthy(Modified.time)
    /\ Falsy(last.date) /\ Falsy(last.time)
    /\ RaisedUnchanged

====
